---- MODULE Spec2Model ----
(***************************************************************************)
(* cfnscript: the lexer, the recursive-descent parser, the AST rendering   *)
(* (compile direction) and the decompiler with its pretty-printer.         *)
(*                                                                         *)
(* Text is a sequence of one-character strings.  A document-tree value is  *)
(* a tagged record: [k |-> "str", s], [k |-> "num", neg, int, frac] (a     *)
(* decimal numeral: sign, integer part, fraction digits), [k |-> "bool", *)
(* b], [k |-> "null"], [k |-> "undef"], [k |-> "arr", items] and          *)
(* [k |-> "obj", props] with props a sequence of <<key, value>> pairs in   *)
(* the object's stored key order.                                          *)
(***************************************************************************)
EXTENDS Integers, Sequences, FiniteSets, TLC

VARIABLES
    inp,      \* what the run was given: the description of a tree or of a source text
    tmpl,     \* the document tree handed to Decompiler.decompile()
    script,   \* the source text at hand (given, or the decompiler's output)
    out,      \* the result of Compiler.compile(script)
    pretty,   \* the result of PrettyPrinter.format(script)
    pc,       \* the calls made so far
    lexer     \* a Lexer over the source text, and its last call

vars == <<inp, tmpl, script, out, pretty, pc, lexer>>

RECURSIVE Call(_, _)

\* A string literal of the source as text: the sequence of its characters
Chars(s) ==
    CASE s = "  @" -> <<" ", " ", "@">>
      [] s = "  y // d" -> <<" ", " ", "y", " ", "/", "/", " ", "d">>
      [] s = " != " -> <<" ", "!", "=", " ">>
      [] s = " && " -> <<" ", "&", "&", " ">>
      [] s = " 'x" -> <<" ", "'", "x">>
      [] s = " , " -> <<" ", ",", " ">>
      [] s = " = " -> <<" ", "=", " ">>
      [] s = " = Condition " -> <<" ", "=", " ", "C", "o", "n", "d", "i", "t", "i", "o", "n", " ">>
      [] s = " = Condition 'a' == 'b'\n" -> <<" ", "=", " ", "C", "o", "n", "d", "i", "t", "i", "o", "n", " ", "'", "a", "'", " ", "=", "=", " ", "'", "b", "'", "\n">>
      [] s = " = Mapping { m: { k: 'v' } }\n" -> <<" ", "=", " ", "M", "a", "p", "p", "i", "n", "g", " ", "{", " ", "m", ":", " ", "{", " ", "k", ":", " ", "'", "v", "'", " ", "}", " ", "}", "\n">>
      [] s = " = Parameter { Type: 'String' }\n" -> <<" ", "=", " ", "P", "a", "r", "a", "m", "e", "t", "e", "r", " ", "{", " ", "T", "y", "p", "e", ":", " ", "'", "S", "t", "r", "i", "n", "g", "'", " ", "}", "\n">>
      [] s = " = Resource " -> <<" ", "=", " ", "R", "e", "s", "o", "u", "r", "c", "e", " ">>
      [] s = " = Resource AWS::SNS::Topic\n" -> <<" ", "=", " ", "R", "e", "s", "o", "u", "r", "c", "e", " ", "A", "W", "S", ":", ":", "S", "N", "S", ":", ":", "T", "o", "p", "i", "c", "\n">>
      [] s = " == " -> <<" ", "=", "=", " ">>
      [] s = " Condition(K)" -> <<" ", "C", "o", "n", "d", "i", "t", "i", "o", "n", "(", "K", ")">>
      [] s = " DeletionPolicy('Retain')" -> <<" ", "D", "e", "l", "e", "t", "i", "o", "n", "P", "o", "l", "i", "c", "y", "(", "'", "R", "e", "t", "a", "i", "n", "'", ")">>
      [] s = " DependsOn('Q')" -> <<" ", "D", "e", "p", "e", "n", "d", "s", "O", "n", "(", "'", "Q", "'", ")">>
      [] s = " DependsOn(['Q', 'Z'])" -> <<" ", "D", "e", "p", "e", "n", "d", "s", "O", "n", "(", "[", "'", "Q", "'", ",", " ", "'", "Z", "'", "]", ")">>
      [] s = " Metadata({ a: 1 })" -> <<" ", "M", "e", "t", "a", "d", "a", "t", "a", "(", "{", " ", "a", ":", " ", "1", " ", "}", ")">>
      [] s = " { P: 1 }" -> <<" ", "{", " ", "P", ":", " ", "1", " ", "}">>
      [] s = " { a: " -> <<" ", "{", " ", "a", ":", " ">>
      [] s = " {}" -> <<" ", "{", "}">>
      [] s = " || " -> <<" ", "|", "|", " ">>
      [] s = " }" -> <<" ", "}">>
      [] s = " } }" -> <<" ", "}", " ", "}">>
      [] s = "!" -> <<"!">>
      [] s = "!(" -> <<"!", "(">>
      [] s = "!C" -> <<"!", "C">>
      [] s = "${v}" -> <<"$", "{", "v", "}">>
      [] s = "&&" -> <<"&", "&">>
      [] s = "')" -> <<"'", ")">>
      [] s = "', " -> <<"'", ",", " ">>
      [] s = "'a'" -> <<"'", "a", "'">>
      [] s = "'x'" -> <<"'", "x", "'">>
      [] s = "() { [native code] }" -> <<"(", ")", " ", "{", " ", "[", "n", "a", "t", "i", "v", "e", " ", "c", "o", "d", "e", "]", " ", "}">>
      [] s = "(,) }" -> <<"(", ",", ")", " ", "}">>
      [] s = "(A || B)" -> <<"(", "A", " ", "|", "|", " ", "B", ")">>
      [] s = "(B && C)" -> <<"(", "B", " ", "&", "&", " ", "C", ")">>
      [] s = "(B || C)" -> <<"(", "B", " ", "|", "|", " ", "C", ")">>
      [] s = ")" -> <<")">>
      [] s = ") }" -> <<")", " ", "}">>
      [] s = "," -> <<",">>
      [] s = ", " -> <<",", " ">>
      [] s = ", 1, 2) }" -> <<",", " ", "1", ",", " ", "2", ")", " ", "}">>
      [] s = ", 2) }" -> <<",", " ", "2", ")", " ", "}">>
      [] s = ", {" -> <<",", " ", "{">>
      [] s = ".Arn" -> <<".", "A", "r", "n">>
      [] s = "1.0" -> <<"1", ".", "0">>
      [] s = "1a" -> <<"1", "a">>
      [] s = "2010-09-09" -> <<"2", "0", "1", "0", "-", "0", "9", "-", "0", "9">>
      [] s = "2Cond 'it" -> <<"2", "C", "o", "n", "d", " ", "'", "i", "t">>
      [] s = ": " -> <<":", " ">>
      [] s = ": 1" -> <<":", " ", "1">>
      [] s = "::" -> <<":", ":">>
      [] s = "==" -> <<"=", "=">>
      [] s = "A" -> <<"A">>
      [] s = "A = Parameter { Type: 'String' } K = Condition A == 'x' " -> <<"A", " ", "=", " ", "P", "a", "r", "a", "m", "e", "t", "e", "r", " ", "{", " ", "T", "y", "p", "e", ":", " ", "'", "S", "t", "r", "i", "n", "g", "'", " ", "}", " ", "K", " ", "=", " ", "C", "o", "n", "d", "i", "t", "i", "o", "n", " ", "A", " ", "=", "=", " ", "'", "x", "'", " ">>
      [] s = "AWS" -> <<"A", "W", "S">>
      [] s = "AWS." -> <<"A", "W", "S", ".">>
      [] s = "AWS.NoValue" -> <<"A", "W", "S", ".", "N", "o", "V", "a", "l", "u", "e">>
      [] s = "AWS.Region" -> <<"A", "W", "S", ".", "R", "e", "g", "i", "o", "n">>
      [] s = "AWS::" -> <<"A", "W", "S", ":", ":">>
      [] s = "AWS::NoValue" -> <<"A", "W", "S", ":", ":", "N", "o", "V", "a", "l", "u", "e">>
      [] s = "AWS::Region" -> <<"A", "W", "S", ":", ":", "R", "e", "g", "i", "o", "n">>
      [] s = "AWS::S3::Bucket" -> <<"A", "W", "S", ":", ":", "S", "3", ":", ":", "B", "u", "c", "k", "e", "t">>
      [] s = "AWSTemplateFormatVersion" -> <<"A", "W", "S", "T", "e", "m", "p", "l", "a", "t", "e", "F", "o", "r", "m", "a", "t", "V", "e", "r", "s", "i", "o", "n">>
      [] s = "AWSTemplateFormatVersion " -> <<"A", "W", "S", "T", "e", "m", "p", "l", "a", "t", "e", "F", "o", "r", "m", "a", "t", "V", "e", "r", "s", "i", "o", "n", " ">>
      [] s = "AWSTemplateFormatVersion '2010-09-09'" -> <<"A", "W", "S", "T", "e", "m", "p", "l", "a", "t", "e", "F", "o", "r", "m", "a", "t", "V", "e", "r", "s", "i", "o", "n", " ", "'", "2", "0", "1", "0", "-", "0", "9", "-", "0", "9", "'">>
      [] s = "And" -> <<"A", "n", "d">>
      [] s = "Arn" -> <<"A", "r", "n">>
      [] s = "Arn.AWS.Arn" -> <<"A", "r", "n", ".", "A", "W", "S", ".", "A", "r", "n">>
      [] s = "Assertions" -> <<"A", "s", "s", "e", "r", "t", "i", "o", "n", "s">>
      [] s = "B" -> <<"B">>
      [] s = "B == 'x'" -> <<"B", " ", "=", "=", " ", "'", "x", "'">>
      [] s = "B == 'y'" -> <<"B", " ", "=", "=", " ", "'", "y", "'">>
      [] s = "Base64" -> <<"B", "a", "s", "e", "6", "4">>
      [] s = "Base64(" -> <<"B", "a", "s", "e", "6", "4", "(">>
      [] s = "C" -> <<"C">>
      [] s = "Cidr" -> <<"C", "i", "d", "r">>
      [] s = "Condition" -> <<"C", "o", "n", "d", "i", "t", "i", "o", "n">>
      [] s = "Conditions" -> <<"C", "o", "n", "d", "i", "t", "i", "o", "n", "s">>
      [] s = "CreationPolicy" -> <<"C", "r", "e", "a", "t", "i", "o", "n", "P", "o", "l", "i", "c", "y">>
      [] s = "Default" -> <<"D", "e", "f", "a", "u", "l", "t">>
      [] s = "Delete" -> <<"D", "e", "l", "e", "t", "e">>
      [] s = "DeletionPolicy" -> <<"D", "e", "l", "e", "t", "i", "o", "n", "P", "o", "l", "i", "c", "y">>
      [] s = "DependsOn" -> <<"D", "e", "p", "e", "n", "d", "s", "O", "n">>
      [] s = "Description" -> <<"D", "e", "s", "c", "r", "i", "p", "t", "i", "o", "n">>
      [] s = "Description " -> <<"D", "e", "s", "c", "r", "i", "p", "t", "i", "o", "n", " ">>
      [] s = "Equals" -> <<"E", "q", "u", "a", "l", "s">>
      [] s = "F" -> <<"F">>
      [] s = "FindInMap" -> <<"F", "i", "n", "d", "I", "n", "M", "a", "p">>
      [] s = "Fn::" -> <<"F", "n", ":", ":">>
      [] s = "Fn::Equals" -> <<"F", "n", ":", ":", "E", "q", "u", "a", "l", "s">>
      [] s = "Fn::GetAtt" -> <<"F", "n", ":", ":", "G", "e", "t", "A", "t", "t">>
      [] s = "Fn::Not" -> <<"F", "n", ":", ":", "N", "o", "t">>
      [] s = "Fn::Sub" -> <<"F", "n", ":", ":", "S", "u", "b">>
      [] s = "GetAZs" -> <<"G", "e", "t", "A", "Z", "s">>
      [] s = "GetAtt" -> <<"G", "e", "t", "A", "t", "t">>
      [] s = "Globals" -> <<"G", "l", "o", "b", "a", "l", "s">>
      [] s = "Globals " -> <<"G", "l", "o", "b", "a", "l", "s", " ">>
      [] s = "If" -> <<"I", "f">>
      [] s = "If(x, " -> <<"I", "f", "(", "x", ",", " ">>
      [] s = "ImportValue" -> <<"I", "m", "p", "o", "r", "t", "V", "a", "l", "u", "e">>
      [] s = "InvalidPolicy" -> <<"I", "n", "v", "a", "l", "i", "d", "P", "o", "l", "i", "c", "y">>
      [] s = "Join" -> <<"J", "o", "i", "n">>
      [] s = "K" -> <<"K">>
      [] s = "K = Condition !" -> <<"K", " ", "=", " ", "C", "o", "n", "d", "i", "t", "i", "o", "n", " ", "!">>
      [] s = "K = Condition P == 'a'" -> <<"K", " ", "=", " ", "C", "o", "n", "d", "i", "t", "i", "o", "n", " ", "P", " ", "=", "=", " ", "'", "a", "'">>
      [] s = "M" -> <<"M">>
      [] s = "M = Mapping { a: { b: " -> <<"M", " ", "=", " ", "M", "a", "p", "p", "i", "n", "g", " ", "{", " ", "a", ":", " ", "{", " ", "b", ":", " ">>
      [] s = "Mapping" -> <<"M", "a", "p", "p", "i", "n", "g">>
      [] s = "Mappings" -> <<"M", "a", "p", "p", "i", "n", "g", "s">>
      [] s = "Metadata" -> <<"M", "e", "t", "a", "d", "a", "t", "a">>
      [] s = "Metadata " -> <<"M", "e", "t", "a", "d", "a", "t", "a", " ">>
      [] s = "NoValue" -> <<"N", "o", "V", "a", "l", "u", "e">>
      [] s = "Not" -> <<"N", "o", "t">>
      [] s = "O" -> <<"O">>
      [] s = "O = Output { V: [F('a', -1)] }" -> <<"O", " ", "=", " ", "O", "u", "t", "p", "u", "t", " ", "{", " ", "V", ":", " ", "[", "F", "(", "'", "a", "'", ",", " ", "-", "1", ")", "]", " ", "}">>
      [] s = "O = Output { Value: " -> <<"O", " ", "=", " ", "O", "u", "t", "p", "u", "t", " ", "{", " ", "V", "a", "l", "u", "e", ":", " ">>
      [] s = "O = Output { Value: Base64(" -> <<"O", " ", "=", " ", "O", "u", "t", "p", "u", "t", " ", "{", " ", "V", "a", "l", "u", "e", ":", " ", "B", "a", "s", "e", "6", "4", "(">>
      [] s = "O = Output { Value: If(" -> <<"O", " ", "=", " ", "O", "u", "t", "p", "u", "t", " ", "{", " ", "V", "a", "l", "u", "e", ":", " ", "I", "f", "(">>
      [] s = "O = Output { Value: If(Q, " -> <<"O", " ", "=", " ", "O", "u", "t", "p", "u", "t", " ", "{", " ", "V", "a", "l", "u", "e", ":", " ", "I", "f", "(", "Q", ",", " ">>
      [] s = "O = Output { Value: [1, " -> <<"O", " ", "=", " ", "O", "u", "t", "p", "u", "t", " ", "{", " ", "V", "a", "l", "u", "e", ":", " ", "[", "1", ",", " ">>
      [] s = "O = Output { Value: [R, If(K, P, 'b')] }" -> <<"O", " ", "=", " ", "O", "u", "t", "p", "u", "t", " ", "{", " ", "V", "a", "l", "u", "e", ":", " ", "[", "R", ",", " ", "I", "f", "(", "K", ",", " ", "P", ",", " ", "'", "b", "'", ")", "]", " ", "}">>
      [] s = "Or" -> <<"O", "r">>
      [] s = "Output" -> <<"O", "u", "t", "p", "u", "t">>
      [] s = "Outputs" -> <<"O", "u", "t", "p", "u", "t", "s">>
      [] s = "P" -> <<"P">>
      [] s = "P = Parameter { Default: " -> <<"P", " ", "=", " ", "P", "a", "r", "a", "m", "e", "t", "e", "r", " ", "{", " ", "D", "e", "f", "a", "u", "l", "t", ":", " ">>
      [] s = "P = Parameter { Type: 'String' }" -> <<"P", " ", "=", " ", "P", "a", "r", "a", "m", "e", "t", "e", "r", " ", "{", " ", "T", "y", "p", "e", ":", " ", "'", "S", "t", "r", "i", "n", "g", "'", " ", "}">>
      [] s = "P: " -> <<"P", ":", " ">>
      [] s = "Paa = Parameter " -> <<"P", "a", "a", " ", "=", " ", "P", "a", "r", "a", "m", "e", "t", "e", "r", " ">>
      [] s = "Pab = Parameter " -> <<"P", "a", "b", " ", "=", " ", "P", "a", "r", "a", "m", "e", "t", "e", "r", " ">>
      [] s = "Parameter" -> <<"P", "a", "r", "a", "m", "e", "t", "e", "r">>
      [] s = "Parameters" -> <<"P", "a", "r", "a", "m", "e", "t", "e", "r", "s">>
      [] s = "Properties" -> <<"P", "r", "o", "p", "e", "r", "t", "i", "e", "s">>
      [] s = "Q" -> <<"Q">>
      [] s = "R" -> <<"R">>
      [] s = "R = Resource AWS::S3::Bucket" -> <<"R", " ", "=", " ", "R", "e", "s", "o", "u", "r", "c", "e", " ", "A", "W", "S", ":", ":", "S", "3", ":", ":", "B", "u", "c", "k", "e", "t">>
      [] s = "R = Resource AWS::S3::Bucket { A: P, B: K }" -> <<"R", " ", "=", " ", "R", "e", "s", "o", "u", "r", "c", "e", " ", "A", "W", "S", ":", ":", "S", "3", ":", ":", "B", "u", "c", "k", "e", "t", " ", "{", " ", "A", ":", " ", "P", ",", " ", "B", ":", " ", "K", " ", "}">>
      [] s = "R = Resource AWS::S3::Bucket { P: " -> <<"R", " ", "=", " ", "R", "e", "s", "o", "u", "r", "c", "e", " ", "A", "W", "S", ":", ":", "S", "3", ":", ":", "B", "u", "c", "k", "e", "t", " ", "{", " ", "P", ":", " ">>
      [] s = "R = Resource AWS::S3::Bucket { P: 'a', Q: -1.5 }" -> <<"R", " ", "=", " ", "R", "e", "s", "o", "u", "r", "c", "e", " ", "A", "W", "S", ":", ":", "S", "3", ":", ":", "B", "u", "c", "k", "e", "t", " ", "{", " ", "P", ":", " ", "'", "a", "'", ",", " ", "Q", ":", " ", "-", "1", ".", "5", " ", "}">>
      [] s = "R = Resource AWS::S3::Bucket { P: 1 } " -> <<"R", " ", "=", " ", "R", "e", "s", "o", "u", "r", "c", "e", " ", "A", "W", "S", ":", ":", "S", "3", ":", ":", "B", "u", "c", "k", "e", "t", " ", "{", " ", "P", ":", " ", "1", " ", "}", " ">>
      [] s = "R = Resource AWS::S3::Bucket {}" -> <<"R", " ", "=", " ", "R", "e", "s", "o", "u", "r", "c", "e", " ", "A", "W", "S", ":", ":", "S", "3", ":", ":", "B", "u", "c", "k", "e", "t", " ", "{", "}">>
      [] s = "R = Resource AWS::S3::Bucket {} " -> <<"R", " ", "=", " ", "R", "e", "s", "o", "u", "r", "c", "e", " ", "A", "W", "S", ":", ":", "S", "3", ":", ":", "B", "u", "c", "k", "e", "t", " ", "{", "}", " ">>
      [] s = "R = Resource AWS::S3::Bucket {} DependsOn(" -> <<"R", " ", "=", " ", "R", "e", "s", "o", "u", "r", "c", "e", " ", "A", "W", "S", ":", ":", "S", "3", ":", ":", "B", "u", "c", "k", "e", "t", " ", "{", "}", " ", "D", "e", "p", "e", "n", "d", "s", "O", "n", "(">>
      [] s = "R.Arn" -> <<"R", ".", "A", "r", "n">>
      [] s = "Ref" -> <<"R", "e", "f">>
      [] s = "Region" -> <<"R", "e", "g", "i", "o", "n">>
      [] s = "Resource" -> <<"R", "e", "s", "o", "u", "r", "c", "e">>
      [] s = "Resources" -> <<"R", "e", "s", "o", "u", "r", "c", "e", "s">>
      [] s = "Retain" -> <<"R", "e", "t", "a", "i", "n">>
      [] s = "RetainExceptOnCreate" -> <<"R", "e", "t", "a", "i", "n", "E", "x", "c", "e", "p", "t", "O", "n", "C", "r", "e", "a", "t", "e">>
      [] s = "Rua = Rule " -> <<"R", "u", "a", " ", "=", " ", "R", "u", "l", "e", " ">>
      [] s = "Rule" -> <<"R", "u", "l", "e">>
      [] s = "Rules" -> <<"R", "u", "l", "e", "s">>
      [] s = "S" -> <<"S">>
      [] s = "S = Resource AWS::S3::Bucket {} T = Resource AWS::S3::Bucket {} " -> <<"S", " ", "=", " ", "R", "e", "s", "o", "u", "r", "c", "e", " ", "A", "W", "S", ":", ":", "S", "3", ":", ":", "B", "u", "c", "k", "e", "t", " ", "{", "}", " ", "T", " ", "=", " ", "R", "e", "s", "o", "u", "r", "c", "e", " ", "A", "W", "S", ":", ":", "S", "3", ":", ":", "B", "u", "c", "k", "e", "t", " ", "{", "}", " ">>
      [] s = "S = Resource AWS::SNS::Topic" -> <<"S", " ", "=", " ", "R", "e", "s", "o", "u", "r", "c", "e", " ", "A", "W", "S", ":", ":", "S", "N", "S", ":", ":", "T", "o", "p", "i", "c">>
      [] s = "Select" -> <<"S", "e", "l", "e", "c", "t">>
      [] s = "Snapshot" -> <<"S", "n", "a", "p", "s", "h", "o", "t">>
      [] s = "Split" -> <<"S", "p", "l", "i", "t">>
      [] s = "StackName" -> <<"S", "t", "a", "c", "k", "N", "a", "m", "e">>
      [] s = "String" -> <<"S", "t", "r", "i", "n", "g">>
      [] s = "Sub" -> <<"S", "u", "b">>
      [] s = "Sub(" -> <<"S", "u", "b", "(">>
      [] s = "Sub('" -> <<"S", "u", "b", "(", "'">>
      [] s = "T" -> <<"T">>
      [] s = "Transform" -> <<"T", "r", "a", "n", "s", "f", "o", "r", "m">>
      [] s = "Transform " -> <<"T", "r", "a", "n", "s", "f", "o", "r", "m", " ">>
      [] s = "Transform [" -> <<"T", "r", "a", "n", "s", "f", "o", "r", "m", " ", "[">>
      [] s = "Type" -> <<"T", "y", "p", "e">>
      [] s = "U" -> <<"U">>
      [] s = "U = Rule { Assertions: [" -> <<"U", " ", "=", " ", "R", "u", "l", "e", " ", "{", " ", "A", "s", "s", "e", "r", "t", "i", "o", "n", "s", ":", " ", "[">>
      [] s = "UpdatePolicy" -> <<"U", "p", "d", "a", "t", "e", "P", "o", "l", "i", "c", "y">>
      [] s = "UpdateReplacePolicy" -> <<"U", "p", "d", "a", "t", "e", "R", "e", "p", "l", "a", "c", "e", "P", "o", "l", "i", "c", "y">>
      [] s = "Use ! operator instead" -> <<"U", "s", "e", " ", "!", " ", "o", "p", "e", "r", "a", "t", "o", "r", " ", "i", "n", "s", "t", "e", "a", "d">>
      [] s = "Use && operator instead" -> <<"U", "s", "e", " ", "&", "&", " ", "o", "p", "e", "r", "a", "t", "o", "r", " ", "i", "n", "s", "t", "e", "a", "d">>
      [] s = "Use == operator instead" -> <<"U", "s", "e", " ", "=", "=", " ", "o", "p", "e", "r", "a", "t", "o", "r", " ", "i", "n", "s", "t", "e", "a", "d">>
      [] s = "Use dot notation instead (e.g., MyBucket.Arn)" -> <<"U", "s", "e", " ", "d", "o", "t", " ", "n", "o", "t", "a", "t", "i", "o", "n", " ", "i", "n", "s", "t", "e", "a", "d", " ", "(", "e", ".", "g", ".", ",", " ", "M", "y", "B", "u", "c", "k", "e", "t", ".", "A", "r", "n", ")">>
      [] s = "Use variable reference instead (e.g., MyBucket)" -> <<"U", "s", "e", " ", "v", "a", "r", "i", "a", "b", "l", "e", " ", "r", "e", "f", "e", "r", "e", "n", "c", "e", " ", "i", "n", "s", "t", "e", "a", "d", " ", "(", "e", ".", "g", ".", ",", " ", "M", "y", "B", "u", "c", "k", "e", "t", ")">>
      [] s = "Use || operator instead" -> <<"U", "s", "e", " ", "|", "|", " ", "o", "p", "e", "r", "a", "t", "o", "r", " ", "i", "n", "s", "t", "e", "a", "d">>
      [] s = "Value" -> <<"V", "a", "l", "u", "e">>
      [] s = "Value: " -> <<"V", "a", "l", "u", "e", ":", " ">>
      [] s = "Value: AWS." -> <<"V", "a", "l", "u", "e", ":", " ", "A", "W", "S", ".">>
      [] s = "Value: K" -> <<"V", "a", "l", "u", "e", ":", " ", "K">>
      [] s = "Value: [K, 1]" -> <<"V", "a", "l", "u", "e", ":", " ", "[", "K", ",", " ", "1", "]">>
      [] s = "Version" -> <<"V", "e", "r", "s", "i", "o", "n">>
      [] s = "X" -> <<"X">>
      [] s = "X = Condition " -> <<"X", " ", "=", " ", "C", "o", "n", "d", "i", "t", "i", "o", "n", " ">>
      [] s = "X = Condition !K" -> <<"X", " ", "=", " ", "C", "o", "n", "d", "i", "t", "i", "o", "n", " ", "!", "K">>
      [] s = "X = Condition K || K" -> <<"X", " ", "=", " ", "C", "o", "n", "d", "i", "t", "i", "o", "n", " ", "K", " ", "|", "|", " ", "K">>
      [] s = "Z" -> <<"Z">>
      [] s = "[" -> <<"[">>
      [] s = "[1, 2].z(\"s\")" -> <<"[", "1", ",", " ", "2", "]", ".", "z", "(", "\"", "s", "\"", ")">>
      [] s = "[object Object]" -> <<"[", "o", "b", "j", "e", "c", "t", " ", "O", "b", "j", "e", "c", "t", "]">>
      [] s = "]" -> <<"]">>
      [] s = "] }" -> <<"]", " ", "}">>
      [] s = "a" -> <<"a">>
      [] s = "a & b" -> <<"a", " ", "&", " ", "b">>
      [] s = "a 'bc" -> <<"a", " ", "'", "b", "c">>
      [] s = "a == b && !c || d != e" -> <<"a", " ", "=", "=", " ", "b", " ", "&", "&", " ", "!", "c", " ", "|", "|", " ", "d", " ", "!", "=", " ", "e">>
      [] s = "a b" -> <<"a", " ", "b">>
      [] s = "a | 'b' ~" -> <<"a", " ", "|", " ", "'", "b", "'", " ", "~">>
      [] s = "a.b" -> <<"a", ".", "b">>
      [] s = "a: b, c" -> <<"a", ":", " ", "b", ",", " ", "c">>
      [] s = "b" -> <<"b">>
      [] s = "c" -> <<"c">>
      [] s = "constructor" -> <<"c", "o", "n", "s", "t", "r", "u", "c", "t", "o", "r">>
      [] s = "d" -> <<"d">>
      [] s = "dot notation" -> <<"d", "o", "t", " ", "n", "o", "t", "a", "t", "i", "o", "n">>
      [] s = "false" -> <<"f", "a", "l", "s", "e">>
      [] s = "function " -> <<"f", "u", "n", "c", "t", "i", "o", "n", " ">>
      [] s = "hasOwnProperty" -> <<"h", "a", "s", "O", "w", "n", "P", "r", "o", "p", "e", "r", "t", "y">>
      [] s = "it's" -> <<"i", "t", "'", "s">>
      [] s = "it's ${v}" -> <<"i", "t", "'", "s", " ", "$", "{", "v", "}">>
      [] s = "it{s" -> <<"i", "t", "{", "s">>
      [] s = "k" -> <<"k">>
      [] s = "lex error" -> <<"l", "e", "x", " ", "e", "r", "r", "o", "r">>
      [] s = "null" -> <<"n", "u", "l", "l">>
      [] s = "s' " -> <<"s", "'", " ">>
      [] s = "say \"hi\"" -> <<"s", "a", "y", " ", "\"", "h", "i", "\"">>
      [] s = "toString" -> <<"t", "o", "S", "t", "r", "i", "n", "g">>
      [] s = "true" -> <<"t", "r", "u", "e">>
      [] s = "undefined" -> <<"u", "n", "d", "e", "f", "i", "n", "e", "d">>
      [] s = "v" -> <<"v">>
      [] s = "valueOf" -> <<"v", "a", "l", "u", "e", "O", "f">>
      [] s = "variable reference" -> <<"v", "a", "r", "i", "a", "b", "l", "e", " ", "r", "e", "f", "e", "r", "e", "n", "c", "e">>
      [] s = "x" -> <<"x">>
      [] s = "x # c" -> <<"x", " ", "#", " ", "c">>
      [] s = "x-${A}" -> <<"x", "-", "$", "{", "A", "}">>
      [] s = "y" -> <<"y">>
      [] s = "{" -> <<"{">>
      [] s = "{ " -> <<"{", " ">>
      [] s = "{ 'a" -> <<"{", " ", "'", "a">>
      [] s = "{ Condition: " -> <<"{", " ", "C", "o", "n", "d", "i", "t", "i", "o", "n", ":", " ">>
      [] s = "{}" -> <<"{", "}">>
      [] s = "||" -> <<"|", "|">>
      [] s = "}" -> <<"}">>
      [] s = "} ," -> <<"}", " ", ",">>

(***************************************************************************)
(* Sequence helpers (JavaScript string and array primitives).              *)
(***************************************************************************)
\* The concatenation of ss[lo..hi], halving the range
RECURSIVE FlattenRange(_, _, _)
FlattenRange(ss, lo, hi) ==
    IF lo > hi THEN <<>>
    ELSE IF lo = hi THEN ss[lo]
    ELSE FlattenRange(ss, lo, (lo + hi) \div 2) \o FlattenRange(ss, (lo + hi) \div 2 + 1, hi)

Flatten(ss) == FlattenRange(ss, 1, Len(ss))

\* ss.join(sep)
JoinWith(ss, sep) ==
    IF ss = <<>> THEN <<>>
    ELSE Flatten([i \in 1..(2 * Len(ss) - 1) |-> IF i % 2 = 1 THEN ss[(i + 1) \div 2] ELSE sep])

StartsWith(s, p) == Len(s) >= Len(p) /\ SubSeq(s, 1, Len(p)) = p

Drop(s, n) == SubSeq(s, n + 1, Len(s))

\* s.includes(p)
Includes(s, p) == \E i \in 0..(Len(s) - Len(p)) : SubSeq(s, i + 1, i + Len(p)) = p

Contains(seq, x) == \E i \in 1..Len(seq) : seq[i] = x

Whitespace == {" ", "\n", "\t", "\r"}

\* A trim that leaves the white space in place, to compare against
TrimNothing(s) == s

\* s.trim()
Trim(s) ==
    LET inner == {i \in 1..Len(s) : s[i] \notin Whitespace}
    IN  IF inner = {} THEN <<>>
        ELSE SubSeq(s, CHOOSE i \in inner : \A j \in inner : i <= j,
                       CHOOSE i \in inner : \A j \in inner : i >= j)

Repeat(c, n) == [i \in 1..n |-> c]

(***************************************************************************)
(* Lexer                                                                   *)
(***************************************************************************)
Digits == {"0", "1", "2", "3", "4", "5", "6", "7", "8", "9"}

Letters ==
    {"a", "b", "c", "d", "e", "f", "g", "h", "i", "j", "k", "l", "m",
     "n", "o", "p", "q", "r", "s", "t", "u", "v", "w", "x", "y", "z",
     "A", "B", "C", "D", "E", "F", "G", "H", "I", "J", "K", "L", "M",
     "N", "O", "P", "Q", "R", "S", "T", "U", "V", "W", "X", "Y", "Z"}

isDigit(ch) == ch \in Digits

isIdentifierStart(ch) == ch \in Letters \/ ch = "_" \/ ch = "$"

isIdentifierPart(ch) == isIdentifierStart(ch) \/ isDigit(ch)

\* source[i] || '' with i counted from 0
CharAt(source, i) == IF i >= 0 /\ i < Len(source) THEN source[i + 1] ELSE ""

\* The lexer after construction: pos 0, line 1, column 1, current = source[0] || ''
LexerInit(source) == [pos |-> 0, line |-> 1, column |-> 1, current |-> CharAt(source, 0)]

advance(source, st) ==
    [pos     |-> st.pos + 1,
     line    |-> IF st.current = "\n" THEN st.line + 1 ELSE st.line,
     column  |-> IF st.current = "\n" THEN 1 ELSE st.column + 1,
     current |-> CharAt(source, st.pos + 1)]

peek1(source, st) == CharAt(source, st.pos + 1)

makeToken(type, value, line, column) ==
    [type |-> type, value |-> value, line |-> line, column |-> column]

LexOk(tok, st) == [ok |-> TRUE, tok |-> tok, st |-> st, msg |-> "", line |-> 0, column |-> 0]

LexErr(msg, line, column, st) ==
    [ok |-> FALSE, tok |-> makeToken("EOF", <<>>, line, column), st |-> st,
     msg |-> msg, line |-> line, column |-> column]

\* The position where a loop "while (Keep(this.current)) this.advance()" that
\* starts at position from leaves the lexer; Keep is false of '' (end of input)
runEnd(source, from, Keep(_)) ==
    IF from >= Len(source) THEN from
    ELSE CHOOSE k \in from..Len(source) :
            /\ ~Keep(CharAt(source, k))
            /\ \A j \in from..(k - 1) : Keep(CharAt(source, j))

\* The lexer after n calls of advance() from st
advanceBy(source, st, n) ==
    LET newlines == {k \in st.pos..(st.pos + n - 1) : CharAt(source, k) = "\n"}
        last == CHOOSE k \in newlines : \A j \in newlines : j <= k
    IN  [pos     |-> st.pos + n,
         line    |-> st.line + Cardinality(newlines),
         column  |-> IF newlines = {} THEN st.column + n ELSE st.pos + n - last,
         current |-> CharAt(source, st.pos + n)]

skipLineComment(source, st) ==
    LET end == runEnd(source, st.pos, LAMBDA ch : ch # "" /\ ch # "\n")
        s1 == advanceBy(source, st, end - st.pos)
    IN  IF s1.current = "\n" THEN advance(source, s1) ELSE s1

skipWhitespaceAndComments(source, st) ==
    LET end == runEnd(source, st.pos, LAMBDA ch : ch \in Whitespace)
        s1 == IF end = st.pos THEN st ELSE advanceBy(source, st, end - st.pos)
    IN  IF s1.current = "#" \/ (s1.current = "/" /\ peek1(source, s1) = "/")
        THEN Call("skipWhitespaceAndComments", <<source, Call("skipLineComment", <<source, s1>>)>>)
        ELSE s1

\* [firstChar -> <<nextChar, doubleType, singleType>>]
doubleCharTokens(ch) ==
    CASE ch = "=" -> <<"=", "DOUBLE_EQUALS", "EQUALS">>
      [] ch = "&" -> <<"&", "DOUBLE_AMPERSAND", "AMPERSAND">>
      [] ch = "|" -> <<"|", "DOUBLE_PIPE", "PIPE">>
      [] ch = "!" -> <<"=", "EXCLAMATION_EQUALS", "EXCLAMATION">>
      [] ch = ":" -> <<":", "DOUBLE_COLON", "COLON">>
      [] OTHER -> <<>>

\* A tryDoubleChar that returns the single-character token without advancing, to compare against
tryDoubleCharInPlace(source, st, line, column) ==
    LET config == doubleCharTokens(st.current)
        s1 == advance(source, st)
    IN  IF config = <<>> THEN [found |-> FALSE, r |-> LexOk(makeToken("EOF", <<>>, line, column), st)]
        ELSE IF s1.current = config[1]
        THEN [found |-> TRUE,
              r |-> LexOk(makeToken(config[2], <<st.current, config[1]>>, line, column),
                          advance(source, s1))]
        ELSE [found |-> TRUE, r |-> LexOk(makeToken(config[3], <<st.current>>, line, column), st)]

tryDoubleChar(source, st, line, column) ==
    LET config == doubleCharTokens(st.current)
        s1 == advance(source, st)
    IN  IF config = <<>> THEN [found |-> FALSE, r |-> LexOk(makeToken("EOF", <<>>, line, column), st)]
        ELSE IF s1.current = config[1]
        THEN [found |-> TRUE,
              r |-> LexOk(makeToken(config[2], <<st.current, config[1]>>, line, column),
                          advance(source, s1))]
        ELSE [found |-> TRUE, r |-> LexOk(makeToken(config[3], <<st.current>>, line, column), s1)]

singleCharTokens(ch) ==
    CASE ch = "(" -> "LPAREN"   [] ch = ")" -> "RPAREN"
      [] ch = "{" -> "LBRACE"   [] ch = "}" -> "RBRACE"
      [] ch = "[" -> "LBRACKET" [] ch = "]" -> "RBRACKET"
      [] ch = "," -> "COMMA"    [] ch = "." -> "DOT"
      [] OTHER -> ""

\* The escape switch of readString: the character that \<escaped> decodes to
unescapeChar(escaped) ==
    CASE escaped = "n" -> "\n"
      [] escaped = "t" -> "\t"
      [] escaped = "r" -> "\r"
      [] OTHER -> escaped

\* The while loop of readString; value accumulates the decoded characters: a
\* run of characters taken as they are, then an escape if one follows.
\* A character '' (end of input) appended to a string adds nothing.
readStringLoop(source, st, quote, value) ==
    LET end == runEnd(source, st.pos, LAMBDA ch : ch # "" /\ ch # quote /\ ch # "\\")
        s1 == IF end = st.pos THEN st ELSE advanceBy(source, st, end - st.pos)
        v1 == value \o SubSeq(source, st.pos + 1, end)
        s2 == advance(source, s1)
        dec == IF s2.current = "" THEN <<>> ELSE <<unescapeChar(s2.current)>>
    IN  IF s1.current = "\\" THEN Call("readStringLoop", <<source, advance(source, s2), quote, v1 \o dec>>)
        ELSE [value |-> v1, st |-> s1]

readString(source, st, line, column) ==
    LET quote == st.current
        r == Call("readStringLoop", <<source, advance(source, st), quote, <<>> >>)
    IN  IF r.st.current # quote
        THEN LexErr("Unterminated string", line, column, r.st)
        ELSE LexOk(makeToken("STRING", r.value, line, column), advance(source, r.st))

\* while (isDigit(current)) / while (isIdentifierPart(current)): value += current; advance()
readWhile(source, st, digitsOnly, value) ==
    LET end == IF digitsOnly THEN runEnd(source, st.pos, isDigit)
               ELSE runEnd(source, st.pos, isIdentifierPart)
    IN  [value |-> value \o SubSeq(source, st.pos + 1, end),
         st |-> IF end = st.pos THEN st ELSE advanceBy(source, st, end - st.pos)]

readNumber(source, st, line, column) ==
    LET sign == IF st.current = "-"
                THEN [value |-> <<"-">>, st |-> advance(source, st)]
                ELSE [value |-> <<>>, st |-> st]
        int  == Call("readWhile", <<source, sign.st, TRUE, sign.value>>)
    IN  IF isIdentifierStart(int.st.current) THEN
            \* an identifier starting with a number, like 2RouteTableCondition
            LET id == Call("readWhile", <<source, int.st, FALSE, int.value>>)
            IN  LexOk(makeToken("IDENTIFIER", id.value, line, column), id.st)
        ELSE IF int.st.current = "." THEN
            LET frac == Call("readWhile", <<source, advance(source, int.st), TRUE, Append(int.value, ".")>>)
            IN  LexOk(makeToken("NUMBER", frac.value, line, column), frac.st)
        ELSE LexOk(makeToken("NUMBER", int.value, line, column), int.st)

readIdentifier(source, st, line, column) ==
    LET id == Call("readWhile", <<source, st, FALSE, <<>> >>)
    IN  LexOk(makeToken("IDENTIFIER", id.value, line, column), id.st)

nextToken(source, st0) ==
    LET st == Call("skipWhitespaceAndComments", <<source, st0>>)
        line == st.line
        column == st.column
        dbl == Call("tryDoubleChar", <<source, st, line, column>>)
    IN  IF st.pos >= Len(source) THEN LexOk(makeToken("EOF", <<>>, st.line, st.column), st)
        ELSE IF dbl.found THEN dbl.r
        ELSE IF singleCharTokens(st.current) # ""
        THEN LexOk(makeToken(singleCharTokens(st.current), <<st.current>>, line, column),
                   advance(source, st))
        ELSE IF st.current = "\"" \/ st.current = "'" THEN Call("readString", <<source, st, line, column>>)
        ELSE IF isDigit(st.current) \/ (st.current = "-" /\ isDigit(peek1(source, st)))
        THEN Call("readNumber", <<source, st, line, column>>)
        ELSE IF isIdentifierStart(st.current) THEN Call("readIdentifier", <<source, st, line, column>>)
        ELSE LexErr("Unexpected character", line, column, st)

\* peek(): nextToken() with pos, line, column and current restored afterwards
\* (a throw inside nextToken() leaves peek() before the restore)
peek(source, st0) ==
    LET r == Call("nextToken", <<source, st0>>) IN IF r.ok THEN [r EXCEPT !.st = st0] ELSE r

(***************************************************************************)
(* Document-tree values                                                    *)
(***************************************************************************)
Str(s) == [k |-> "str", s |-> s]
Num(neg, int, frac) == [k |-> "num", neg |-> neg, int |-> int, frac |-> frac]
Bool(b) == [k |-> "bool", b |-> b]
Null == [k |-> "null"]
Undefined == [k |-> "undef"]
Arr(items) == [k |-> "arr", items |-> items]
Obj(props) == [k |-> "obj", props |-> props]

HasKey(props, key) == \E i \in 1..Len(props) : props[i][1] = key

\* obj[key], undefined when the key is absent
Get(props, key) ==
    IF HasKey(props, key)
    THEN props[CHOOSE i \in 1..Len(props) : props[i][1] = key][2]
    ELSE Undefined

\* obj[key] = val (also Map.set): an existing key keeps its place
ObjSet(props, key, val) ==
    IF HasKey(props, key)
    THEN [i \in 1..Len(props) |-> IF props[i][1] = key THEN <<key, val>> ELSE props[i]]
    ELSE Append(props, <<key, val>>)

\* JavaScript truthiness
Truthy(v) ==
    CASE v.k = "undef" -> FALSE
      [] v.k = "null" -> FALSE
      [] v.k = "str" -> v.s # <<>>
      [] v.k = "num" -> ~(v.int = 0 /\ v.frac = <<>>)
      [] v.k = "bool" -> v.b
      [] OTHER -> TRUE

DigitChar(d) == <<"0", "1", "2", "3", "4", "5", "6", "7", "8", "9">>[d + 1]

DigitVal(ch) == CHOOSE d \in 0..9 : DigitChar(d) = ch

RECURSIVE NatToString(_)
NatToString(n) == IF n < 10 THEN <<DigitChar(n)>> ELSE Append(NatToString(n \div 10), DigitChar(n % 10))

RECURSIVE DigitsToNat(_, _)
DigitsToNat(ds, acc) == IF ds = <<>> THEN acc ELSE DigitsToNat(Tail(ds), acc * 10 + DigitVal(Head(ds)))

RECURSIVE StripTrailingZeros(_)
StripTrailingZeros(ds) ==
    IF ds # <<>> /\ ds[Len(ds)] = "0" THEN StripTrailingZeros(SubSeq(ds, 1, Len(ds) - 1)) ELSE ds

\* String(number), for the numbers a NUMBER token can denote
NumberToString(v) ==
    (IF v.neg /\ ~(v.int = 0 /\ v.frac = <<>>) THEN <<"-">> ELSE <<>>)
        \o NatToString(v.int)
        \o (IF v.frac = <<>> THEN <<>> ELSE <<".">> \o v.frac)

\* parseFloat(text) of a NUMBER token: -?digits(.digits)?
parseFloat(t) ==
    LET neg == t # <<>> /\ Head(t) = "-"
        body == IF neg THEN Tail(t) ELSE t
        dot == IF Contains(body, ".") THEN CHOOSE i \in 1..Len(body) : body[i] = "." ELSE Len(body) + 1
    IN  Num(neg, DigitsToNat(SubSeq(body, 1, dot - 1), 0),
            StripTrailingZeros(SubSeq(body, dot + 1, Len(body))))

(***************************************************************************)
(* AST nodes                                                               *)
(***************************************************************************)
Nil == [t |-> "Nil"]
LiteralNode(value) == [t |-> "Literal", value |-> value]
IdentifierNode(name) == [t |-> "Identifier", name |-> name]
ObjectNode(properties) == [t |-> "Object", properties |-> properties]
ArrayNode(elements) == [t |-> "Array", elements |-> elements]
MemberAccessNode(object, property) == [t |-> "MemberAccess", object |-> object, property |-> property]
GetAttArrayNode(object, properties) == [t |-> "GetAttArray", object |-> object, properties |-> properties]
FunctionCallNode(name, args) == [t |-> "FunctionCall", name |-> name, args |-> args]
ResourceAttributeNode(name, value) == [t |-> "ResourceAttribute", name |-> name, value |-> value]
ResourceNode(type, properties, hasExplicitProperties, attributes) ==
    [t |-> "Resource", type |-> type, properties |-> properties,
     hasExplicitProperties |-> hasExplicitProperties, attributes |-> attributes]
\* ParameterNode, OutputNode, RuleNode, MappingNode: t is the entity keyword
EntityNode(keyword, properties) == [t |-> keyword, properties |-> properties]
ConditionNode(expression) == [t |-> "Condition", expression |-> expression]
AssignmentNode(name, value, line) == [t |-> "Assignment", name |-> name, value |-> value, line |-> line]
\* DescriptionNode, AWSTemplateFormatVersionNode, TransformNode, MetadataNode, GlobalsNode
SectionNode(keyword, value) == [t |-> keyword, value |-> value]
TemplateNode(statements) == [t |-> "Template", statements |-> statements]

(***************************************************************************)
(* AST rendering: toCloudFormation / toCloudFormationWithContext           *)
(***************************************************************************)
NoErr == [kind |-> "", detail |-> <<>>, line |-> 0, column |-> 0]
MkErr(kind, detail, line, column) == [kind |-> kind, detail |-> detail, line |-> line, column |-> column]

ROk(v) == [ok |-> TRUE, v |-> v, err |-> NoErr]
RErr(kind, detail) == [ok |-> FALSE, v |-> Undefined, err |-> MkErr(kind, detail, 0, 0)]

EmptyContext == [parameters |-> {}, conditions |-> {}, resources |-> {}, mappings |-> {}]

\* No name counts as a pseudo parameter, to compare against
isNeverAWSPseudoParameter(name) == FALSE

isAWSPseudoParameter(name) == StartsWith(name, Chars("AWS::")) \/ StartsWith(name, Chars("AWS."))

\* A validation that accepts every name, to compare against
validateNothing(name, context) == TRUE

validateDeclared(name, context) ==
    name \in context.parameters \/ name \in context.conditions
        \/ name \in context.resources \/ name \in context.mappings

\* A resolution that never looks at the conditions, to compare against
IdentifierAlwaysRef(name, context) ==
    IF ~Call("isAWSPseudoParameter", <<name>>) /\ ~Call("validateDeclared", <<name, context>>)
    THEN RErr("is not declared", name)
    ELSE ROk(Obj(<< <<Chars("Ref"), Str(name)>> >>))

\* IdentifierNode.toCloudFormationWithContext
IdentifierWithContext(name, context) ==
    IF ~Call("isAWSPseudoParameter", <<name>>) /\ ~Call("validateDeclared", <<name, context>>)
    THEN RErr("is not declared", name)
    ELSE IF name \in context.conditions /\ name \notin context.parameters
    THEN ROk(Obj(<< <<Chars("Condition"), Str(name)>> >>))
    ELSE ROk(Obj(<< <<Chars("Ref"), Str(name)>> >>))

\* The chained properties collected with push in place of unshift: outermost first
MemberChainReversed(current, properties) ==
    IF current.t = "MemberAccess"
    THEN Call("MemberChain", <<current.object, properties \o <<current.property>> >>)
    ELSE [base |-> current, properties |-> properties]

\* MemberAccessNode.toCloudFormation: the chained properties, outermost last
MemberChain(current, properties) ==
    IF current.t = "MemberAccess"
    THEN Call("MemberChain", <<current.object, <<current.property>> \o properties>>)
    ELSE [base |-> current, properties |-> properties]

MemberAccessToCloudFormation(node) ==
    LET c == Call("MemberChain", <<node, <<>> >>)
    IN  IF c.base.t = "Identifier"
        THEN ROk(Obj(<< <<Chars("Fn::GetAtt"),
                          Arr(<<Str(c.base.name), Str(JoinWith(c.properties, <<".">>))>>)>> >>))
        ELSE RErr("Member access only supported on identifiers", <<>>)

\* The bracket form rendered like the dot form, its names joined into one path, to compare against
GetAttArrayJoined(node) ==
    IF node.object.t = "Identifier"
    THEN ROk(Obj(<< <<Chars("Fn::GetAtt"),
                      Arr(<<Str(node.object.name), Str(JoinWith(node.properties, <<".">>))>>)>> >>))
    ELSE RErr("GetAtt array notation only supported on identifiers", <<>>)

GetAttArrayToCloudFormation(node) ==
    IF node.object.t = "Identifier"
    THEN ROk(Obj(<< <<Chars("Fn::GetAtt"),
                      Arr(<<Str(node.object.name)>> \o [i \in 1..Len(node.properties) |-> Str(node.properties[i])])>> >>))
    ELSE RErr("GetAtt array notation only supported on identifiers", <<>>)

\* No name takes an array whatever the number of arguments, to compare against
noArrayFunctions == {}

alwaysArrayFunctions ==
    {Chars("Not"), Chars("And"), Chars("Or"), Chars("Equals"), Chars("Join"),
     Chars("Split"), Chars("Select"), Chars("FindInMap"), Chars("Cidr")}

\* ResourceAttributeNode.unwrapValue: cfValue.Ref || cfValue.Condition || cfValue
unwrapValue(name, cfValue) ==
    IF (name = Chars("Condition") \/ name = Chars("DependsOn")) /\ cfValue.k \in {"obj", "arr"}
    THEN LET ref == IF cfValue.k = "obj" THEN Get(cfValue.props, Chars("Ref")) ELSE Undefined
             cond == IF cfValue.k = "obj" THEN Get(cfValue.props, Chars("Condition")) ELSE Undefined
         IN  IF Truthy(ref) THEN ref ELSE IF Truthy(cond) THEN cond ELSE cfValue
    ELSE cfValue

\* useArray ? cfArgs : cfArgs[0]
ArgsOrFirst(useArray, cfArgs) ==
    IF useArray THEN Arr(cfArgs) ELSE IF cfArgs = <<>> THEN Undefined ELSE cfArgs[1]


\* nodes.map(n => n.toCloudFormation...()), stopping at the first throw
RenderList(nodes, context, wc, acc) ==
    IF nodes = <<>> THEN ROk(Arr(acc))
    ELSE LET r == Call("Render", <<Head(nodes), context, wc>>)
         IN  IF r.ok THEN Call("RenderList", <<Tail(nodes), context, wc, Append(acc, r.v)>>) ELSE r

\* for (const [key, value] of properties) result[key] = value.toCloudFormation...()
RenderProps(properties, context, wc, acc) ==
    IF properties = <<>> THEN ROk(Obj(acc))
    ELSE LET r == Call("Render", <<Head(properties)[2], context, wc>>)
         IN  IF r.ok
             THEN Call("RenderProps", <<Tail(properties), context, wc, ObjSet(acc, Head(properties)[1], r.v)>>)
             ELSE r

\* for (const attr of this.attributes) result[key] = value
RenderAttributes(attributes, context, wc, acc) ==
    IF attributes = <<>> THEN ROk(Obj(acc))
    ELSE LET attr == Head(attributes)
             r == Call("Render", <<attr.value, context, wc>>)
         IN  IF r.ok
             THEN Call("RenderAttributes", <<Tail(attributes), context, wc,
                                   ObjSet(acc, attr.name, Call("unwrapValue", <<attr.name, r.v>>))>>)
             ELSE r

\* A function call that renders its first argument like the others, to compare against
FunctionCallRenderingEveryArgument(node, context) ==
    LET cfArgs == Call("RenderList", <<node.args, context, TRUE, <<>> >>)
    IN  IF ~cfArgs.ok THEN cfArgs
        ELSE ROk(Obj(<< <<Chars("Fn::") \o node.name,
                          Call("ArgsOrFirst", <<node.name \in alwaysArrayFunctions \/ Len(cfArgs.v.items) > 1,
                                                cfArgs.v.items>>)>> >>))

\* FunctionCallNode.toCloudFormationWithContext
FunctionCallWithContext(node, context) ==
    LET key == Chars("Fn::") \o node.name IN
    IF node.name = Chars("If") THEN
        \* buildIfFunction
        IF node.args = <<>> THEN RErr("TypeError", <<>>)
        ELSE LET firstArg == node.args[1]
                 conditionName == IF firstArg.t = "Identifier" THEN ROk(Str(firstArg.name))
                                  ELSE Call("Render", <<firstArg, context, TRUE>>)
                 restArgs == Call("RenderList", <<Tail(node.args), context, TRUE, <<>> >>)
             IN  IF ~conditionName.ok THEN conditionName
                 ELSE IF ~restArgs.ok THEN restArgs
                 ELSE ROk(Obj(<< <<key, Arr(<<conditionName.v>> \o restArgs.v.items)>> >>))
    ELSE LET cfArgs == Call("RenderList", <<node.args, context, TRUE, <<>> >>) IN
        IF ~cfArgs.ok THEN cfArgs
        ELSE IF node.name = Chars("Sub")
        THEN \* buildSubFunction
             ROk(Obj(<< <<key, Call("ArgsOrFirst", <<Len(cfArgs.v.items) # 1, cfArgs.v.items>>)>> >>))
        ELSE \* buildGenericFunction
             ROk(Obj(<< <<key, Call("ArgsOrFirst", <<node.name \in alwaysArrayFunctions \/ Len(cfArgs.v.items) > 1,
                                            cfArgs.v.items>>)>> >>))

\* A resource that renders its properties whether they were written or not, to compare against
buildResourceWithProperties(node, context, wc) ==
    LET props == Call("Render", <<node.properties, context, wc>>)
    IN  IF ~props.ok THEN props
        ELSE Call("RenderAttributes", <<node.attributes, context, wc,
                              << <<Chars("Type"), Str(node.type)>>, <<Chars("Properties"), props.v>> >> >>)

\* ResourceNode.buildResource
buildResource(node, context, wc) ==
    LET props == IF node.hasExplicitProperties THEN Call("Render", <<node.properties, context, wc>>)
                 ELSE ROk(Undefined)
        base == << <<Chars("Type"), Str(node.type)>> >>
                    \o (IF node.hasExplicitProperties /\ props.ok
                        THEN << <<Chars("Properties"), props.v>> >> ELSE <<>>)
    IN  IF ~props.ok THEN props ELSE Call("RenderAttributes", <<node.attributes, context, wc, base>>)

\* wc = TRUE: node.toCloudFormationWithContext(context); wc = FALSE: node.toCloudFormation().
\* A class without its own toCloudFormationWithContext inherits the base method,
\* which calls toCloudFormation() and drops the context.
Render(node, context, wc) ==
    CASE node.t = "Literal" -> ROk(node.value)
      [] node.t = "Identifier" ->
            IF wc THEN Call("IdentifierWithContext", <<node.name, context>>)
            ELSE ROk(Obj(<< <<Chars("Ref"), Str(node.name)>> >>))
      [] node.t = "Object" -> Call("RenderProps", <<node.properties, context, wc, <<>> >>)
      [] node.t = "Array" -> Call("RenderList", <<node.elements, context, wc, <<>> >>)
      [] node.t = "MemberAccess" -> Call("MemberAccessToCloudFormation", <<node>>)
      [] node.t = "GetAttArray" -> Call("GetAttArrayToCloudFormation", <<node>>)
      [] node.t = "FunctionCall" ->
            Call("FunctionCallWithContext", <<node, IF wc THEN context ELSE EmptyContext>>)
      [] node.t = "Resource" -> Call("buildResource", <<node, context, wc>>)
      [] node.t \in {"Parameter", "Output", "Rule", "Mapping"} -> Call("Render", <<node.properties, context, wc>>)
      [] node.t = "Condition" -> Call("Render", <<node.expression, context, wc>>)
      [] node.t = "Assignment" -> Call("Render", <<node.value, context, FALSE>>)
      [] node.t \in {"Description", "AWSTemplateFormatVersion", "Transform"} -> ROk(node.value)
      [] node.t \in {"Metadata", "Globals"} -> Call("Render", <<node.value, context, FALSE>>)
      [] OTHER -> RErr("TypeError", <<>>)

toCloudFormation(node) == Call("Render", <<node, EmptyContext, FALSE>>)

toCloudFormationWithContext(node, context) == Call("Render", <<node, context, TRUE>>)

(***************************************************************************)
(* Parser.  The parser state p is [ok, cur, lex, err]: cur is this.current, *)
(* lex the lexer's state, and ok = FALSE once an Error has been thrown     *)
(* (err says which).  A thrown parse has no current token any more: its    *)
(* cur has the type "THROWN", which no branch of the parser tests for, and *)
(* every later step of it is skipped.  A parse function returns            *)
(* [node, p]; the node of a thrown parse is never used.                    *)
(***************************************************************************)
PR(node, p) == [node |-> node, p |-> p]

Thrown(lex, err) == [ok |-> FALSE, cur |-> makeToken("THROWN", <<>>, 0, 0), lex |-> lex, err |-> err]

Fail(p, kind, detail, line, column) ==
    IF p.ok THEN Thrown(p.lex, MkErr(kind, detail, line, column)) ELSE p

\* Parser.advance(): this.current = this.lexer.nextToken()
Parser_advance(source, p) ==
    IF ~p.ok THEN p
    ELSE LET r == Call("nextToken", <<source, p.lex>>)
         IN  IF r.ok THEN [p EXCEPT !.cur = r.tok, !.lex = r.st]
             ELSE Thrown(r.st, MkErr(r.msg, <<>>, r.line, r.column))

\* new Parser(source)
ParserInit(source) ==
    Call("Parser_advance", <<source, [ok |-> TRUE, cur |-> makeToken("EOF", <<>>, 0, 0),
                            lex |-> LexerInit(source), err |-> NoErr]>>)

expect(source, p, type) ==
    IF ~p.ok THEN [tok |-> p.cur, p |-> p]
    ELSE IF p.cur.type # type
    THEN [tok |-> p.cur, p |-> Fail(p, "Expected", <<type, p.cur.type>>, p.cur.line, p.cur.column)]
    ELSE [tok |-> p.cur, p |-> Call("Parser_advance", <<source, p>>)]

entityKeywords == {Chars("Resource"), Chars("Parameter"), Chars("Output"),
                   Chars("Mapping"), Chars("Condition"), Chars("Rule")}

validAttributes == {Chars("DependsOn"), Chars("Condition"), Chars("DeletionPolicy"),
                    Chars("UpdateReplacePolicy"), Chars("CreationPolicy"), Chars("UpdatePolicy"),
                    Chars("Metadata"), Chars("Version")}

sectionKeywords == {Chars("Description"), Chars("AWSTemplateFormatVersion"), Chars("Transform"),
                    Chars("Metadata"), Chars("Globals")}

\* Own keys of disallowedFunctions, and the names the lookup finds on Object.prototype
disallowedFunctions ==
    {Chars("Equals"), Chars("Or"), Chars("And"), Chars("Not"), Chars("Ref"), Chars("GetAtt"),
     Chars("constructor"), Chars("toString"), Chars("valueOf"), Chars("hasOwnProperty")}

\* disallowedFunctions[name]: the advice stored under an own key, and the text
\* of the function that the lookup finds on Object.prototype
disallowedAdvice(name) ==
    CASE name = Chars("Equals") -> Chars("Use == operator instead")
      [] name = Chars("Or") -> Chars("Use || operator instead")
      [] name = Chars("And") -> Chars("Use && operator instead")
      [] name = Chars("Not") -> Chars("Use ! operator instead")
      [] name = Chars("Ref") -> Chars("Use variable reference instead (e.g., MyBucket)")
      [] name = Chars("GetAtt") -> Chars("Use dot notation instead (e.g., MyBucket.Arn)")
      [] OTHER -> Chars("function ") \o name \o Chars("() { [native code] }")

\* The node class that a keyword selects, as node tag
KeywordTag(name) ==
    CASE name = Chars("Parameter") -> "Parameter"
      [] name = Chars("Output") -> "Output"
      [] name = Chars("Mapping") -> "Mapping"
      [] name = Chars("Rule") -> "Rule"
      [] name = Chars("Description") -> "Description"
      [] name = Chars("AWSTemplateFormatVersion") -> "AWSTemplateFormatVersion"
      [] name = Chars("Transform") -> "Transform"
      [] name = Chars("Metadata") -> "Metadata"
      [] name = Chars("Globals") -> "Globals"
      [] OTHER -> "Nil"


parseExpression(source, p) == Call("parseOrExpression", <<source, p>>)

\* A loop that makes a two-argument Or of what it has each time round: nested pairs
parseOrLoopInPairs(source, p, conditions) ==
    LET e == Call("parseAndExpression", <<source, Call("Parser_advance", <<source, p>>)>>)
        pair == FunctionCallNode(Chars("Or"), Append(conditions, e.node))
    IN  IF e.p.cur.type = "DOUBLE_PIPE" THEN Call("parseOrLoop", <<source, e.p, <<pair>> >>)
        ELSE PR(pair, e.p)

\* while (current is ||) { advance(); conditions.push(parseAndExpression()) }, entered at a ||
parseOrLoop(source, p, conditions) ==
    LET e == Call("parseAndExpression", <<source, Call("Parser_advance", <<source, p>>)>>)
    IN  IF e.p.cur.type = "DOUBLE_PIPE" THEN Call("parseOrLoop", <<source, e.p, Append(conditions, e.node)>>)
        ELSE PR(FunctionCallNode(Chars("Or"), Append(conditions, e.node)), e.p)

parseOrExpression(source, p) ==
    LET e == Call("parseAndExpression", <<source, p>>)
    IN  IF e.p.cur.type = "DOUBLE_PIPE" THEN Call("parseOrLoop", <<source, e.p, <<e.node>> >>) ELSE e

parseAndLoop(source, p, conditions) ==
    LET e == Call("parseEqualityExpression", <<source, Call("Parser_advance", <<source, p>>)>>)
    IN  IF e.p.cur.type = "DOUBLE_AMPERSAND" THEN Call("parseAndLoop", <<source, e.p, Append(conditions, e.node)>>)
        ELSE PR(FunctionCallNode(Chars("And"), Append(conditions, e.node)), e.p)

\* A parser that does not read && at this level, to compare against
parseAndExpressionWithoutLoop(source, p) == Call("parseEqualityExpression", <<source, p>>)

parseAndExpression(source, p) ==
    LET e == Call("parseEqualityExpression", <<source, p>>)
    IN  IF e.p.cur.type = "DOUBLE_AMPERSAND" THEN Call("parseAndLoop", <<source, e.p, <<e.node>> >>) ELSE e

parseEqualityExpression(source, p) ==
    LET e == Call("parseUnaryExpression", <<source, p>>)
        right == Call("parseUnaryExpression", <<source, Call("Parser_advance", <<source, e.p>>)>>)
        equals == FunctionCallNode(Chars("Equals"), <<e.node, right.node>>)
    IN  IF e.p.cur.type = "DOUBLE_EQUALS"
        THEN IF right.p.ok THEN PR(equals, right.p) ELSE right
        ELSE IF e.p.cur.type = "EXCLAMATION_EQUALS"
        THEN IF right.p.ok THEN PR(FunctionCallNode(Chars("Not"), <<equals>>), right.p) ELSE right
        ELSE e

parseUnaryExpression(source, p) ==
    IF p.cur.type = "EXCLAMATION"
    THEN LET operand == Call("parseUnaryExpression", <<source, Call("Parser_advance", <<source, p>>)>>)
         IN  IF operand.p.ok THEN PR(FunctionCallNode(Chars("Not"), <<operand.node>>), operand.p)
             ELSE operand
    ELSE Call("parseMemberExpression", <<source, p>>)

\* properties.push(expect(STRING).value) while a comma follows
parseBracketStrings(source, p, properties) ==
    LET s == Call("expect", <<source, p, "STRING">>)
        acc == Append(properties, s.tok.value)
    IN  IF s.p.cur.type = "COMMA" THEN Call("parseBracketStrings", <<source, Call("Parser_advance", <<source, s.p>>), acc>>)
        ELSE [properties |-> acc, p |-> s.p]

\* The while loop of parseMemberExpression
parseMemberLoop(source, p, expr) ==
    CASE p.cur.type = "DOT" ->
            LET property == Call("expect", <<source, Call("Parser_advance", <<source, p>>), "IDENTIFIER">>)
            IN  IF ~property.p.ok THEN PR(expr, property.p)
                ELSE IF expr.t = "Identifier" /\ expr.name = Chars("AWS")
                THEN PR(IdentifierNode(Chars("AWS::") \o property.tok.value), property.p)
                ELSE Call("parseMemberLoop", <<source, property.p, MemberAccessNode(expr, property.tok.value)>>)
      [] p.cur.type = "LBRACKET" ->
            LET ss == Call("parseBracketStrings", <<source, Call("Parser_advance", <<source, p>>), <<>> >>)
                close == Call("expect", <<source, ss.p, "RBRACKET">>)
            IN  IF ~close.p.ok THEN PR(expr, close.p)
                ELSE Call("parseMemberLoop", <<source, close.p, GetAttArrayNode(expr, ss.properties)>>)
      [] OTHER -> PR(expr, p)

parseMemberExpression(source, p) ==
    LET e == Call("parsePrimary", <<source, p>>)
    IN  IF e.p.cur.type \in {"DOT", "LBRACKET"} THEN Call("parseMemberLoop", <<source, e.p, e.node>>) ELSE e

parsePrimary(source, p) ==
    CASE p.cur.type = "THROWN" -> PR(Nil, p)
      [] p.cur.type = "STRING" -> PR(LiteralNode(Str(p.cur.value)), Call("Parser_advance", <<source, p>>))
      [] p.cur.type = "NUMBER" -> PR(LiteralNode(parseFloat(p.cur.value)), Call("Parser_advance", <<source, p>>))
      [] p.cur.type = "LPAREN" ->
            LET e == Call("parseExpression", <<source, Call("Parser_advance", <<source, p>>)>>)
            IN  IF e.p.ok THEN PR(e.node, Call("expect", <<source, e.p, "RPAREN">>).p) ELSE e
      [] p.cur.type = "LBRACE" -> Call("parseObject", <<source, p>>)
      [] p.cur.type = "LBRACKET" -> Call("parseArray", <<source, p>>)
      [] p.cur.type = "IDENTIFIER" ->
            LET name == p.cur.value
                p1 == Call("Parser_advance", <<source, p>>)
            IN  CASE ~p1.ok -> PR(Nil, p1)
                  [] name = Chars("true") -> PR(LiteralNode(Bool(TRUE)), p1)
                  [] name = Chars("false") -> PR(LiteralNode(Bool(FALSE)), p1)
                  [] name = Chars("null") -> PR(LiteralNode(Null), p1)
                  [] name \in entityKeywords -> Call("parseEntityDeclaration", <<source, p1, name>>)
                  [] p1.cur.type = "LPAREN" -> Call("parseFunctionCall", <<source, p1, name>>)
                  [] OTHER -> PR(IdentifierNode(name), p1)
      [] OTHER -> PR(Nil, Fail(p, "Unexpected token", p.cur.value, p.cur.line, 0))

parseEntityDeclaration(source, p, name) ==
    CASE name = Chars("Resource") -> Call("parseResource", <<source, p>>)
      [] name = Chars("Condition") ->
            LET e == Call("parseExpression", <<source, p>>)
            IN  IF e.p.ok THEN PR(ConditionNode(e.node), e.p) ELSE e
      [] OTHER ->
            LET obj == Call("parseObject", <<source, p>>)
            IN  IF obj.p.ok THEN PR(EntityNode(Call("KeywordTag", <<name>>), obj.node), obj.p) ELSE obj

\* parseResourceType: IDENTIFIER (:: IDENTIFIER)*, joined with '::'
parseResourceTypeLoop(source, p, parts) ==
    IF p.cur.type = "DOUBLE_COLON"
    THEN LET p1 == Call("Parser_advance", <<source, p>>)
         IN  IF ~p1.ok THEN [type |-> parts, p |-> p1]
             ELSE IF p1.cur.type # "IDENTIFIER"
             THEN [type |-> parts, p |-> Fail(p1, "Expected identifier after ::", <<>>, p1.cur.line, 0)]
             ELSE Call("parseResourceTypeLoop", <<source, Call("Parser_advance", <<source, p1>>),
                                        parts \o Chars("::") \o p1.cur.value>>)
    ELSE [type |-> parts, p |-> p]

parseResourceType(source, p) ==
    IF ~p.ok THEN [type |-> <<>>, p |-> p]
    ELSE IF p.cur.type # "IDENTIFIER"
    THEN [type |-> <<>>, p |-> Fail(p, "Expected resource type", <<>>, p.cur.line, 0)]
    ELSE Call("parseResourceTypeLoop", <<source, Call("Parser_advance", <<source, p>>), p.cur.value>>)

\* The while loop over chained attributes
parseAttributesLoop(source, p, resource) ==
    IF p.cur.type = "IDENTIFIER" /\ p.cur.value \in validAttributes
    THEN LET open == Call("expect", <<source, Call("Parser_advance", <<source, p>>), "LPAREN">>)
             attrValue == Call("parseExpression", <<source, open.p>>)
             close == Call("expect", <<source, attrValue.p, "RPAREN">>)
         IN  IF ~open.p.ok THEN PR(resource, open.p)
             ELSE IF ~attrValue.p.ok THEN attrValue
             ELSE IF ~close.p.ok THEN PR(resource, close.p)
             ELSE Call("parseAttributesLoop", <<source, close.p,
                     [resource EXCEPT !.attributes =
                         Append(@, ResourceAttributeNode(p.cur.value, attrValue.node))]>>)
    ELSE PR(resource, p)

parseResource(source, p) ==
    LET ty == Call("parseResourceType", <<source, p>>)
        hasProperties == ty.p.cur.type = "LBRACE"
        properties == IF hasProperties THEN Call("parseObject", <<source, ty.p>>) ELSE PR(ObjectNode(<<>>), ty.p)
    IN  IF ~ty.p.ok THEN PR(Nil, ty.p)
        ELSE IF ~properties.p.ok THEN properties
        ELSE Call("parseAttributesLoop", <<source, properties.p,
                                 ResourceNode(ty.type, properties.node, hasProperties, <<>>)>>)

\* args.push(parseExpression()) while a comma follows, then expect(RPAREN)
parseArgsLoop(source, p, name, args) ==
    LET e == Call("parseExpression", <<source, p>>)
    IN  IF e.p.cur.type = "COMMA"
        THEN Call("parseArgsLoop", <<source, Call("Parser_advance", <<source, e.p>>), name, Append(args, e.node)>>)
        ELSE IF ~e.p.ok THEN e
        ELSE PR(FunctionCallNode(name, Append(args, e.node)), Call("expect", <<source, e.p, "RPAREN">>).p)

parseFunctionCall(source, p, name) ==
    LET open == Call("expect", <<source, p, "LPAREN">>)
    IN  IF ~open.p.ok THEN PR(Nil, open.p)
        ELSE IF name \in disallowedFunctions
        THEN PR(Nil, Fail(open.p, "function syntax is not supported",
                          <<name, disallowedAdvice(name)>>, open.p.cur.line, 0))
        ELSE IF open.p.cur.type = "RPAREN"
        THEN PR(FunctionCallNode(name, <<>>), Call("expect", <<source, open.p, "RPAREN">>).p)
        ELSE Call("parseArgsLoop", <<source, open.p, name, <<>> >>)

\* One pass of the do-while body of parseObject, the while test, and after the
\* last pass expect(RBRACE)
parseObjectLoop(source, p, properties) ==
    LET p1 == IF p.cur.type = "COMMA" THEN Call("Parser_advance", <<source, p>>) ELSE p
        key == IF p1.cur.type = "STRING" THEN Call("expect", <<source, p1, "STRING">>)
               ELSE Call("expect", <<source, p1, "IDENTIFIER">>)
        colon == Call("expect", <<source, key.p, "COLON">>)
        value == Call("parseExpression", <<source, colon.p>>)
        acc == ObjSet(properties, key.tok.value, value.node)
    IN  IF ~colon.p.ok THEN PR(Nil, colon.p)
        ELSE IF value.p.cur.type = "COMMA" THEN Call("parseObjectLoop", <<source, value.p, acc>>)
        ELSE IF ~value.p.ok THEN value
        ELSE PR(ObjectNode(acc), Call("expect", <<source, value.p, "RBRACE">>).p)

parseObject(source, p) ==
    LET open == Call("expect", <<source, p, "LBRACE">>)
    IN  IF ~open.p.ok THEN PR(Nil, open.p)
        ELSE IF open.p.cur.type = "RBRACE"
        THEN PR(ObjectNode(<<>>), Call("expect", <<source, open.p, "RBRACE">>).p)
        ELSE Call("parseObjectLoop", <<source, open.p, <<>> >>)

\* elements.push(parseExpression()), the while loop over commas (which stops
\* at a comma followed by ]), and expect(RBRACKET)
parseArrayLoop(source, p, elements) ==
    LET e == Call("parseExpression", <<source, p>>)
        acc == Append(elements, e.node)
        p1 == Call("Parser_advance", <<source, e.p>>)
    IN  IF e.p.cur.type = "COMMA"
        THEN IF p1.cur.type = "RBRACKET" THEN PR(ArrayNode(acc), Call("expect", <<source, p1, "RBRACKET">>).p)
             ELSE Call("parseArrayLoop", <<source, p1, acc>>)
        ELSE IF ~e.p.ok THEN e
        ELSE PR(ArrayNode(acc), Call("expect", <<source, e.p, "RBRACKET">>).p)

parseArray(source, p) ==
    LET open == Call("expect", <<source, p, "LBRACKET">>)
    IN  IF ~open.p.ok THEN PR(Nil, open.p)
        ELSE IF open.p.cur.type = "RBRACKET"
        THEN PR(ArrayNode(<<>>), Call("expect", <<source, open.p, "RBRACKET">>).p)
        ELSE Call("parseArrayLoop", <<source, open.p, <<>> >>)

parseSectionDeclaration(source, p, name) ==
    LET p1 == Call("Parser_advance", <<source, p>>)
        str == Call("expect", <<source, p1, "STRING">>)
        value == Call("parseExpression", <<source, p1>>)
        rendered == Call("toCloudFormation", <<value.node>>)
    IN  CASE name = Chars("Description") \/ name = Chars("AWSTemplateFormatVersion") ->
                PR(SectionNode(Call("KeywordTag", <<name>>), Str(str.tok.value)), str.p)
          [] ~value.p.ok -> value
          [] name = Chars("Transform") ->
                IF rendered.ok THEN PR(SectionNode("Transform", rendered.v), value.p)
                ELSE PR(Nil, Fail(value.p, rendered.err.kind, rendered.err.detail, 0, 0))
          [] OTHER -> PR(SectionNode(Call("KeywordTag", <<name>>), value.node), value.p)

parseAssignment(source, p) ==
    LET name == IF p.cur.type = "STRING" THEN Call("expect", <<source, p, "STRING">>)
                ELSE Call("expect", <<source, p, "IDENTIFIER">>)
        eq == Call("expect", <<source, name.p, "EQUALS">>)
        value == Call("parseExpression", <<source, eq.p>>)
    IN  IF ~eq.p.ok THEN PR(Nil, eq.p)
        ELSE IF ~value.p.ok THEN value
        ELSE PR(AssignmentNode(name.tok.value, value.node, value.p.cur.line), value.p)

parseStatement(source, p) ==
    CASE p.cur.type = "IDENTIFIER" ->
            IF p.cur.value \in sectionKeywords THEN Call("parseSectionDeclaration", <<source, p, p.cur.value>>)
            ELSE Call("parseAssignment", <<source, p>>)
      [] p.cur.type = "STRING" -> Call("parseAssignment", <<source, p>>)
      [] OTHER -> PR(Nil, Fail(p, "Unexpected token", p.cur.value, p.cur.line, 0))

\* The while loop of parse()
parseLoop(source, p, statements) ==
    IF ~p.ok THEN [ok |-> FALSE, node |-> Nil, err |-> p.err]
    ELSE IF p.cur.type = "EOF" THEN [ok |-> TRUE, node |-> TemplateNode(statements), err |-> NoErr]
    ELSE LET s == Call("parseStatement", <<source, p>>)
         IN  IF ~s.p.ok THEN [ok |-> FALSE, node |-> Nil, err |-> s.p.err]
             ELSE Call("parseLoop", <<source, s.p, Append(statements, s.node)>>)

\* new Parser(source).parse()
parse(source) == Call("parseLoop", <<source, Call("ParserInit", <<source>>), <<>> >>)

\* TemplateNode.collectDeclarations
collectDeclarations(statements, context) ==
    IF statements = <<>> THEN context
    ELSE LET stmt == Head(statements)
             vt == IF stmt.t = "Assignment" THEN stmt.value.t ELSE "Nil"
         IN  Call("collectDeclarations", <<Tail(statements),
                CASE vt = "Parameter" -> [context EXCEPT !.parameters = @ \cup {stmt.name}]
                  [] vt = "Condition" -> [context EXCEPT !.conditions = @ \cup {stmt.name}]
                  [] vt = "Resource" -> [context EXCEPT !.resources = @ \cup {stmt.name}]
                  [] vt = "Mapping" -> [context EXCEPT !.mappings = @ \cup {stmt.name}]
                  [] OTHER -> context>>)

\* The section key of addAssignmentToTemplate for a value node, <<>> when there is none
sectionKey(vt) ==
    CASE vt = "Resource" -> Chars("Resources")
      [] vt = "Parameter" -> Chars("Parameters")
      [] vt = "Output" -> Chars("Outputs")
      [] vt = "Rule" -> Chars("Rules")
      [] vt = "Mapping" -> Chars("Mappings")
      [] vt = "Condition" -> Chars("Conditions")
      [] OTHER -> <<>>

\* template[key] = template[key] || {}; template[key][stmt.name] = value.toCloudFormationWithContext(context)
addAssignmentToTemplate(template, stmt, context) ==
    LET key == Call("sectionKey", <<stmt.value.t>>)
        r == Call("toCloudFormationWithContext", <<stmt.value, context>>)
        section == IF HasKey(template, key) THEN Get(template, key).props ELSE <<>>
    IN  IF key = <<>> THEN ROk(Obj(template))
        ELSE IF ~r.ok THEN r
        ELSE ROk(Obj(ObjSet(template, key, Obj(ObjSet(section, stmt.name, r.v)))))

addTopLevelStatement(template, stmt) ==
    LET r == Call("toCloudFormation", <<stmt>>)
    IN  IF stmt.t \notin {"Description", "AWSTemplateFormatVersion", "Transform", "Metadata", "Globals"}
        THEN ROk(Obj(template))
        ELSE IF ~r.ok THEN r
        ELSE ROk(Obj(ObjSet(template, Chars(stmt.t), r.v)))

\* Statements rendered with the declarations of the statements from this one
\* on only, to compare against
addStatementsDeclaredFromHere(statements, template, context) ==
    IF statements = <<>> THEN ROk(Obj(template))
    ELSE LET stmt == Head(statements)
             here == Call("collectDeclarations", <<statements, EmptyContext>>)
             r == IF stmt.t = "Assignment" THEN Call("addAssignmentToTemplate", <<template, stmt, here>>)
                  ELSE Call("addTopLevelStatement", <<template, stmt>>)
         IN  IF r.ok THEN Call("addStatements", <<Tail(statements), r.v.props, context>>) ELSE r

addStatements(statements, template, context) ==
    IF statements = <<>> THEN ROk(Obj(template))
    ELSE LET stmt == Head(statements)
             r == IF stmt.t = "Assignment" THEN Call("addAssignmentToTemplate", <<template, stmt, context>>)
                  ELSE Call("addTopLevelStatement", <<template, stmt>>)
         IN  IF r.ok THEN Call("addStatements", <<Tail(statements), r.v.props, context>>) ELSE r

\* TemplateNode.toCloudFormation
TemplateToCloudFormation(node) ==
    Call("addStatements", <<node.statements, << <<Chars("Resources"), Obj(<<>>)>> >>,
                  Call("collectDeclarations", <<node.statements, EmptyContext>>)>>)

\* Compiler.compile(source)
compile(source) ==
    LET a == Call("parse", <<source>>)
    IN  IF a.ok THEN Call("TemplateToCloudFormation", <<a.node>>)
        ELSE [ok |-> FALSE, v |-> Undefined, err |-> a.err]

(***************************************************************************)
(* Decompiler.  A text result is [ok, s]: ok = FALSE when the code throws. *)
(***************************************************************************)
SOk(s) == [ok |-> TRUE, s |-> s]
SThrow == [ok |-> FALSE, s |-> <<>>]

\* str.replace(/ch/g, rep)
ReplaceAll(str, ch, rep) ==
    Flatten([i \in 1..Len(str) |-> IF str[i] = ch THEN rep ELSE <<str[i]>>])

\* escapeString without the doubling of the backslash
escapeStringKeepingBackslash(str) ==
    Call("ReplaceAll", <<Call("ReplaceAll", <<Call("ReplaceAll", <<Call("ReplaceAll", <<str,
        "'", <<"\\", "'">> >>), "\n", <<"\\", "n">> >>),
        "\r", <<"\\", "r">> >>), "\t", <<"\\", "t">> >>)

escapeString(str) ==
    Call("ReplaceAll", <<Call("ReplaceAll", <<Call("ReplaceAll", <<Call("ReplaceAll", <<Call("ReplaceAll", <<str,
        "\\", <<"\\", "\\">> >>), "'", <<"\\", "'">> >>), "\n", <<"\\", "n">> >>),
        "\r", <<"\\", "r">> >>), "\t", <<"\\", "t">> >>)

\* `${v}`: the string a template literal makes of a value
ToStr(v) ==
    CASE v.k = "str" -> v.s
      [] v.k = "num" -> NumberToString(v)
      [] v.k = "bool" -> IF v.b THEN Chars("true") ELSE Chars("false")
      [] v.k = "null" -> Chars("null")
      [] v.k = "undef" -> Chars("undefined")
      [] v.k = "arr" ->
            JoinWith([i \in 1..Len(v.items) |->
                         IF v.items[i].k \in {"null", "undef"} THEN <<>> ELSE Call("ToStr", <<v.items[i]>>)],
                     <<",">>)
      [] OTHER -> Chars("[object Object]")

\* Object.entries(v) for a value that is neither null nor undefined
Entries(v) ==
    CASE v.k = "obj" -> v.props
      [] v.k = "arr" -> [i \in 1..Len(v.items) |-> <<NatToString(i - 1), v.items[i]>>]
      [] v.k = "str" -> [i \in 1..Len(v.s) |-> <<NatToString(i - 1), Str(<<v.s[i]>>)>>]
      [] OTHER -> <<>>

\* v[key] for a key that only plain objects can carry
Prop(v, key) == IF v.k = "obj" THEN Get(v.props, key) ELSE Undefined

Quote(s) == <<"'">> \o s \o <<"'">>

\* /[.\-\s:\\]/.test(key) || !/^[a-zA-Z_$][a-zA-Z0-9_$]*$/.test(key)
needsQuoting(key) ==
    \/ \E i \in 1..Len(key) : key[i] \in {".", "-", ":", "\\"} \cup Whitespace
    \/ key = <<>>
    \/ ~isIdentifierStart(key[1])
    \/ \E i \in 2..Len(key) : ~isIdentifierPart(key[i])

quoteKeyIfNeeded(key) == IF Call("needsQuoting", <<key>>) THEN Call("Quote", <<Call("escapeString", <<key>>)>>) ELSE key

\* JSON.stringify(v) without indentation, for v other than undefined
JSONStringify(v) ==
    CASE v.k = "str" ->
            <<"\"">> \o Call("ReplaceAll", <<Call("ReplaceAll", <<Call("ReplaceAll", <<Call("ReplaceAll", <<Call("ReplaceAll", <<v.s,
                "\\", <<"\\", "\\">> >>), "\"", <<"\\", "\"">> >>), "\n", <<"\\", "n">> >>),
                "\r", <<"\\", "r">> >>), "\t", <<"\\", "t">> >>) \o <<"\"">>
      [] v.k = "num" -> NumberToString(v)
      [] v.k = "bool" -> IF v.b THEN Chars("true") ELSE Chars("false")
      [] v.k = "arr" ->
            <<"[">> \o JoinWith([i \in 1..Len(v.items) |->
                                    IF v.items[i].k = "undef" THEN Chars("null")
                                    ELSE Call("JSONStringify", <<v.items[i]>>)], <<",">>) \o <<"]">>
      [] v.k = "obj" ->
            LET kept == SelectSeq(v.props, LAMBDA e : e[2].k # "undef")
            IN  <<"{">> \o JoinWith([i \in 1..Len(kept) |->
                                        Call("JSONStringify", <<Str(kept[i][1])>>) \o <<":">> \o Call("JSONStringify", <<kept[i][2]>>)],
                                    <<",">>) \o <<"}">>
      [] OTHER -> Chars("null")


\* values.map(v => this.valueToSource(v)); ss collects the texts
valuesToSource(values, ss) ==
    IF values = <<>> THEN [ok |-> TRUE, ss |-> ss]
    ELSE LET r == Call("valueToSource", <<Head(values)>>)
         IN  IF r.ok THEN Call("valuesToSource", <<Tail(values), Append(ss, r.s)>>)
             ELSE [ok |-> FALSE, ss |-> <<>>]

entriesToSource(entries, ss) ==
    IF entries = <<>> THEN [ok |-> TRUE, ss |-> ss]
    ELSE LET r == Call("valueToSource", <<Head(entries)[2]>>)
         IN  IF r.ok
             THEN Call("entriesToSource", <<Tail(entries),
                      Append(ss, Call("quoteKeyIfNeeded", <<Head(entries)[1]>>) \o Chars(": ") \o r.s)>>)
             ELSE [ok |-> FALSE, ss |-> <<>>]

objectToSource(obj) ==
    IF obj.k \in {"null", "undef"} THEN SThrow
    ELSE LET props == Call("entriesToSource", <<Call("Entries", <<obj>>), <<>> >>)
         IN  IF props.ok THEN SOk(Chars("{ ") \o JoinWith(props.ss, Chars(", ")) \o Chars(" }"))
             ELSE SThrow

valueToSource(value) ==
    CASE value.k \in {"null", "undef"} -> SOk(Chars("null"))
      [] value.k = "str" -> SOk(Call("Quote", <<Call("escapeString", <<value.s>>)>>))
      [] value.k \in {"num", "bool"} -> SOk(Call("ToStr", <<value>>))
      [] value.k = "arr" ->
            LET r == Call("valuesToSource", <<value.items, <<>> >>)
            IN  IF r.ok THEN SOk(<<"[">> \o JoinWith(r.ss, Chars(", ")) \o <<"]">>) ELSE SThrow
      [] OTHER -> Call("objectValueToSource", <<value>>)

getAttToSource(attValue) ==
    IF attValue.k = "arr" /\ Len(attValue.items) >= 2
    THEN IF Len(attValue.items) = 2
         THEN SOk(Call("ToStr", <<attValue.items[1]>>) \o <<".">> \o Call("ToStr", <<attValue.items[2]>>))
         ELSE SOk(Call("ToStr", <<attValue.items[1]>>) \o <<"[">>
                  \o JoinWith([i \in 1..(Len(attValue.items) - 1) |->
                                  <<"\"">> \o Call("ToStr", <<attValue.items[i + 1]>>) \o <<"\"">>], Chars(", "))
                  \o <<"]">>)
    ELSE SThrow

\* The first own key that starts with 'Fn::', 0 when there is none
firstFnKey(props) ==
    IF \E i \in 1..Len(props) : StartsWith(props[i][1], Chars("Fn::"))
    THEN CHOOSE i \in 1..Len(props) :
            /\ StartsWith(props[i][1], Chars("Fn::"))
            /\ \A j \in 1..(i - 1) : ~StartsWith(props[j][1], Chars("Fn::"))
    ELSE 0

objectValueToSource(value) ==
    LET ref == Get(value.props, Chars("Ref"))
        getAtt == Get(value.props, Chars("Fn::GetAtt"))
        fn == Call("firstFnKey", <<value.props>>)
    IN  CASE Truthy(ref) ->
                IF ref.k # "str" THEN SThrow
                ELSE IF StartsWith(ref.s, Chars("AWS::")) THEN SOk(Chars("AWS.") \o Drop(ref.s, 5))
                ELSE SOk(ref.s)
          [] Truthy(getAtt) -> Call("getAttToSource", <<getAtt>>)
          [] fn # 0 -> Call("intrinsicToSource", <<Drop(value.props[fn][1], 4), value.props[fn][2]>>)
          [] OTHER -> Call("objectToSource", <<value>>)

intrinsicToSource(funcName, args) ==
    LET isArr == args.k = "arr"
        n == IF isArr THEN Len(args.items) ELSE 0
        all == IF isArr THEN Call("valuesToSource", <<args.items, <<>> >>) ELSE [ok |-> TRUE, ss |-> <<>>]
        one == Call("valueToSource", <<args>>)
        conditionName == IF args.items[1].k = "str" THEN SOk(args.items[1].s)
                         ELSE Call("valueToSource", <<args.items[1]>>)
        restArgs == Call("valuesToSource", <<Tail(args.items), <<>> >>)
    IN  CASE funcName = Chars("Equals") /\ isArr /\ n = 2 ->
                IF all.ok THEN SOk(all.ss[1] \o Chars(" == ") \o all.ss[2]) ELSE SThrow
          [] funcName = Chars("And") /\ isArr ->
                IF all.ok THEN SOk(JoinWith(all.ss, Chars(" && "))) ELSE SThrow
          [] funcName = Chars("Or") /\ isArr ->
                IF all.ok THEN SOk(JoinWith(all.ss, Chars(" || "))) ELSE SThrow
          [] funcName = Chars("Not") /\ isArr /\ n = 1 -> Call("notToSource", <<args.items[1]>>)
          [] funcName = Chars("Sub") -> Call("subToSource", <<args>>)
          [] funcName = Chars("If") /\ isArr /\ n >= 1 ->
                IF conditionName.ok /\ restArgs.ok
                THEN SOk(funcName \o <<"(">> \o conditionName.s \o Chars(", ")
                         \o JoinWith(restArgs.ss, Chars(", ")) \o <<")">>)
                ELSE SThrow
          [] isArr ->
                IF all.ok THEN SOk(funcName \o <<"(">> \o JoinWith(all.ss, Chars(", ")) \o <<")">>)
                ELSE SThrow
          [] OTHER ->
                IF one.ok THEN SOk(funcName \o <<"(">> \o one.s \o <<")">>) ELSE SThrow

notToSource(arg) ==
    LET eq == Call("Prop", <<arg, Chars("Fn::Equals")>>)
        left == Call("valueToSource", <<eq.items[1]>>)
        right == Call("valueToSource", <<eq.items[2]>>)
        operand == Call("valueToSource", <<arg>>)
    IN  IF Truthy(eq) /\ eq.k = "arr" /\ Len(eq.items) = 2
        THEN IF left.ok /\ right.ok THEN SOk(left.s \o Chars(" != ") \o right.s) ELSE SThrow
        ELSE IF ~operand.ok THEN SThrow
        ELSE IF Includes(operand.s, Chars("==")) \/ Includes(operand.s, Chars("&&"))
                \/ Includes(operand.s, Chars("||"))
        THEN SOk(Chars("!(") \o operand.s \o <<")">>)
        ELSE SOk(<<"!">> \o operand.s)

subToSource(args) ==
    LET first == IF args.items = <<>> THEN Undefined ELSE args.items[1]
        second == Call("valueToSource", <<args.items[2]>>)
        other == Call("valueToSource", <<args>>)
    IN  CASE args.k = "str" -> SOk(Chars("Sub('") \o Call("escapeString", <<args.s>>) \o Chars("')"))
          [] args.k = "arr" ->
                \* JSON.stringify(undefined) is undefined, and escapeString(undefined) throws
                IF first.k = "undef" THEN SThrow
                ELSE LET template == IF first.k = "str" THEN first.s ELSE Call("JSONStringify", <<first>>)
                         escaped == Call("escapeString", <<template>>)
                     IN  IF Len(args.items) = 1 THEN SOk(Chars("Sub('") \o escaped \o Chars("')"))
                         ELSE IF second.ok
                         THEN SOk(Chars("Sub('") \o escaped \o Chars("', ") \o second.s \o <<")">>)
                         ELSE SThrow
          [] OTHER -> IF other.ok THEN SOk(Chars("Sub(") \o other.s \o <<")">>) ELSE SThrow

\* The attribute formatters of resourceToSource, in their fixed order
attributeOrder ==
    <<Chars("DependsOn"), Chars("Condition"), Chars("DeletionPolicy"), Chars("UpdateReplacePolicy"),
      Chars("Metadata"), Chars("CreationPolicy"), Chars("UpdatePolicy"), Chars("Version")>>

attributeFormatter(key, v) ==
    CASE key = Chars("DependsOn") ->
            IF v.k = "arr"
            THEN SOk(<<"[">> \o JoinWith([i \in 1..Len(v.items) |-> Call("Quote", <<Call("ToStr", <<v.items[i]>>)>>)], Chars(", "))
                     \o <<"]">>)
            ELSE SOk(Call("Quote", <<Call("ToStr", <<v>>)>>))
      [] key = Chars("Condition") -> SOk(Call("ToStr", <<v>>))
      [] key \in {Chars("Metadata"), Chars("CreationPolicy"), Chars("UpdatePolicy")} -> Call("objectToSource", <<v>>)
      [] OTHER -> SOk(Call("Quote", <<Call("ToStr", <<v>>)>>))

attributesToSource(resource, keys, line) ==
    IF keys = <<>> THEN SOk(line)
    ELSE LET key == Head(keys)
             v == Call("Prop", <<resource, key>>)
             f == Call("attributeFormatter", <<key, v>>)
         IN  IF ~Truthy(v) THEN Call("attributesToSource", <<resource, Tail(keys), line>>)
             ELSE IF ~f.ok THEN SThrow
             ELSE Call("attributesToSource", <<resource, Tail(keys),
                                     line \o <<" ">> \o key \o <<"(">> \o f.s \o <<")">> >>)

resourceToSource(name, resource) ==
    LET properties == Call("Prop", <<resource, Chars("Properties")>>)
        type == Call("ToStr", <<Call("Prop", <<resource, Chars("Type")>>)>>)
        obj == Call("objectToSource", <<properties>>)
        head == name \o Chars(" = Resource ") \o type
    IN  IF resource.k \in {"null", "undef"} THEN SThrow
        ELSE IF properties.k = "undef" THEN Call("attributesToSource", <<resource, attributeOrder, head>>)
        ELSE IF ~obj.ok THEN SThrow
        ELSE Call("attributesToSource", <<resource, attributeOrder, head \o <<" ">> \o obj.s>>)

\* One declaration line per entry of a section: `${name} = <Keyword> ${...}`
sectionLines(entries, keyword, lines) ==
    IF entries = <<>> THEN [ok |-> TRUE, ss |-> lines]
    ELSE LET name == Head(entries)[1]
             v == Head(entries)[2]
             r == CASE keyword = Chars("Resource") -> Call("resourceToSource", <<name, v>>)
                    [] keyword = Chars("Condition") ->
                          LET c == Call("valueToSource", <<v>>)
                          IN  IF c.ok THEN SOk(name \o Chars(" = Condition ") \o c.s) ELSE SThrow
                    [] OTHER ->
                          LET o == Call("objectToSource", <<v>>)
                          IN  IF o.ok THEN SOk(name \o Chars(" = ") \o keyword \o <<" ">> \o o.s)
                              ELSE SThrow
         IN  IF r.ok THEN Call("sectionLines", <<Tail(entries), keyword, Append(lines, r.s)>>)
             ELSE [ok |-> FALSE, ss |-> <<>>]

\* The declaration sections with Outputs looked for before Resources
declarationSectionsOutputsFirst ==
    << <<Chars("Parameters"), Chars("Parameter")>>, <<Chars("Mappings"), Chars("Mapping")>>,
       <<Chars("Conditions"), Chars("Condition")>>, <<Chars("Outputs"), Chars("Output")>>,
       <<Chars("Resources"), Chars("Resource")>>, <<Chars("Rules"), Chars("Rule")>> >>

\* The declaration sections of decompile() in the order the code visits them
declarationSections ==
    << <<Chars("Parameters"), Chars("Parameter")>>, <<Chars("Mappings"), Chars("Mapping")>>,
       <<Chars("Conditions"), Chars("Condition")>>, <<Chars("Resources"), Chars("Resource")>>,
       <<Chars("Outputs"), Chars("Output")>>, <<Chars("Rules"), Chars("Rule")>> >>

declarationLines(template, sections, lines) ==
    IF sections = <<>> THEN [ok |-> TRUE, ss |-> lines]
    ELSE LET v == Call("Prop", <<template, Head(sections)[1]>>)
             r == Call("sectionLines", <<Call("Entries", <<v>>), Head(sections)[2], lines>>)
         IN  IF ~Truthy(v) THEN Call("declarationLines", <<template, Tail(sections), lines>>)
             ELSE IF ~r.ok THEN r
             ELSE Call("declarationLines", <<template, Tail(sections), r.ss>>)

\* The lines decompile() pushes for the header sections
headerLines(template) ==
    LET version == Call("Prop", <<template, Chars("AWSTemplateFormatVersion")>>)
        description == Call("Prop", <<template, Chars("Description")>>)
        transform == Call("Prop", <<template, Chars("Transform")>>)
        metadata == Call("Prop", <<template, Chars("Metadata")>>)
        globals == Call("Prop", <<template, Chars("Globals")>>)
        m == Call("objectToSource", <<metadata>>)
        g == Call("objectToSource", <<globals>>)
    IN  IF (Truthy(description) /\ description.k # "str")
           \/ (Truthy(metadata) /\ ~m.ok) \/ (Truthy(globals) /\ ~g.ok)
        THEN [ok |-> FALSE, ss |-> <<>>]
        ELSE [ok |-> TRUE, ss |->
            (IF Truthy(version) THEN <<Chars("AWSTemplateFormatVersion ") \o Call("Quote", <<Call("ToStr", <<version>>)>>)>> ELSE <<>>)
            \o (IF Truthy(description)
                THEN <<Chars("Description ") \o Call("Quote", <<Call("escapeString", <<description.s>>)>>)>> ELSE <<>>)
            \o (IF Truthy(transform)
                THEN IF transform.k = "arr"
                     THEN <<Chars("Transform [")
                            \o JoinWith([i \in 1..Len(transform.items) |-> Call("Quote", <<Call("ToStr", <<transform.items[i]>>)>>)],
                                        Chars(", ")) \o <<"]">> >>
                     ELSE <<Chars("Transform ") \o Call("Quote", <<Call("ToStr", <<transform>>)>>)>>
                ELSE <<>>)
            \o (IF Truthy(metadata) THEN <<Chars("Metadata ") \o m.s>> ELSE <<>>)
            \o (IF Truthy(globals) THEN <<Chars("Globals ") \o g.s>> ELSE <<>>)]

\* lines.join('\n\n') of decompile(), before the pretty-printer
decompileLines(template) ==
    LET h == Call("headerLines", <<template>>)
        d == Call("declarationLines", <<template, declarationSections, h.ss>>)
    IN  IF template.k \in {"null", "undef"} \/ ~h.ok \/ ~d.ok THEN SThrow
        ELSE SOk(JoinWith(d.ss, <<"\n", "\n">>))

(***************************************************************************)
(* PrettyPrinter.  Positions are counted from 0 as in the code.            *)
(***************************************************************************)
indentSize == 2

\* s.indexOf(p, from): -1 when p does not occur at or after from
IndexOf(s, p, from) ==
    LET at == {i \in from..(Len(s) - Len(p)) : SubSeq(s, i + 1, i + Len(p)) = p}
    IN  IF at = {} THEN -1 ELSE CHOOSE i \in at : \A j \in at : i <= j

\* s.split(sep) for a non-empty separator
Split(s, sep) ==
    LET at == Call("IndexOf", <<s, sep, 0>>)
    IN  IF at = -1 THEN <<s>>
        ELSE <<SubSeq(s, 1, at)>> \o Call("Split", <<Drop(s, at + Len(sep)), sep>>)

\* The number of leading characters of s that lie in set
PrefixLen(s, set) == IF s # <<>> /\ Head(s) \in set THEN 1 + Call("PrefixLen", <<Tail(s), set>>) ELSE 0

WordChars == Letters \cup Digits \cup {"_"}

LineTerminators == {"\n", "\r"}

\* statement.match(/^(\w+)\s*=\s*(.+)$/): greedy \w+ and \s*, and a value
\* without line terminators that runs to the end of the statement
assignmentMatch(statement) ==
    LET n == Call("PrefixLen", <<statement, WordChars>>)
        afterName == Drop(statement, n)
        afterWs == Drop(afterName, Call("PrefixLen", <<afterName, Whitespace>>))
        afterEq == Tail(afterWs)
        ws == Call("PrefixLen", <<afterEq, Whitespace>>)
        rem == Drop(afterEq, ws)
        none == [matched |-> FALSE, name |-> <<>>, value |-> <<>>]
    IN  IF n = 0 \/ afterWs = <<>> \/ Head(afterWs) # "=" THEN none
        ELSE IF rem # <<>>
        THEN IF \E i \in 1..Len(rem) : rem[i] \in LineTerminators THEN none
             ELSE [matched |-> TRUE, name |-> SubSeq(statement, 1, n), value |-> rem]
        ELSE IF ws > 0 /\ afterEq[ws] \notin LineTerminators
        THEN [matched |-> TRUE, name |-> SubSeq(statement, 1, n), value |-> <<afterEq[ws]>>]
        ELSE none

\* "Track string boundaries": the quote state after looking at text[i]
trackString(text, i, st) ==
    LET char == CharAt(text, i)
    IN  IF (char = "\"" \/ char = "'") /\ (i = 0 \/ CharAt(text, i - 1) # "\\")
        THEN IF ~st.inString THEN [inString |-> TRUE, stringChar |-> char]
             ELSE IF char = st.stringChar THEN [st EXCEPT !.inString = FALSE]
             ELSE st
        ELSE st

noString == [inString |-> FALSE, stringChar |-> ""]

\* One pass of the for loop of findMatchingBrace at index i; found = -1 until
\* the loop returns
findMatchingBraceStep(text, s, i) ==
    LET char == CharAt(text, i)
        st1 == Call("trackString", <<text, i, s.st>>)
        d1 == IF st1.inString THEN s.depth
              ELSE IF char = "{" THEN s.depth + 1
              ELSE IF char = "}" THEN s.depth - 1
              ELSE s.depth
    IN  IF s.found # -1 THEN s
        ELSE [st |-> st1, depth |-> d1,
              found |-> IF ~st1.inString /\ char = "}" /\ d1 = 0 THEN i ELSE -1]

\* The passes for i = lo..hi in order, halving the range
findMatchingBraceRange(text, s, lo, hi) ==
    IF lo > hi \/ s.found # -1 THEN s
    ELSE IF lo = hi THEN Call("findMatchingBraceStep", <<text, s, lo>>)
    ELSE LET left == Call("findMatchingBraceRange", <<text, s, lo, (lo + hi) \div 2>>)
         IN  IF left.found # -1 THEN left
             ELSE Call("findMatchingBraceRange", <<text, left, (lo + hi) \div 2 + 1, hi>>)

findMatchingBrace(text, start) ==
    Call("findMatchingBraceRange", <<text, [st |-> noString, depth |-> 0, found |-> -1],
                           start, Len(text) - 1>>).found

\* One pass of the for loop of parseObjectProperties over the state
\* [current, braceDepth, bracketDepth, parenDepth, st, key, inKey, properties]
parseObjectPropertiesStep(content, s, i) ==
    LET char == CharAt(content, i)
        st1 == Call("trackString", <<content, i, s.st>>)
        outside == ~st1.inString
        s1 == [s EXCEPT !.st = st1,
                  !.braceDepth = IF outside /\ char = "{" THEN @ + 1
                                 ELSE IF outside /\ char = "}" THEN @ - 1 ELSE @,
                  !.bracketDepth = IF outside /\ char = "[" THEN @ + 1
                                   ELSE IF outside /\ char = "]" THEN @ - 1 ELSE @,
                  !.parenDepth = IF outside /\ char = "(" THEN @ + 1
                                 ELSE IF outside /\ char = ")" THEN @ - 1 ELSE @]
        top == outside /\ s1.braceDepth = 0 /\ s1.bracketDepth = 0 /\ s1.parenDepth = 0
    IN  IF top /\ char = ":" /\ s1.inKey
        THEN [s1 EXCEPT !.key = Trim(s1.current), !.current = <<>>, !.inKey = FALSE]
        ELSE IF top /\ char = ","
        THEN [s1 EXCEPT !.properties = Append(@, [key |-> s1.key, value |-> Trim(s1.current)]),
                        !.current = <<>>, !.key = <<>>, !.inKey = TRUE]
        ELSE [s1 EXCEPT !.current = Append(@, char)]

parseObjectPropertiesRange(content, s, lo, hi) ==
    IF lo > hi THEN s
    ELSE IF lo = hi THEN Call("parseObjectPropertiesStep", <<content, s, lo>>)
    ELSE LET left == Call("parseObjectPropertiesRange", <<content, s, lo, (lo + hi) \div 2>>)
         IN  \* the left half is computed before the right half starts
             IF Len(left.current) >= 0
             THEN Call("parseObjectPropertiesRange", <<content, left, (lo + hi) \div 2 + 1, hi>>)
             ELSE left

parseObjectProperties(content) ==
    LET s == Call("parseObjectPropertiesRange", <<content,
                 [current |-> <<>>, braceDepth |-> 0, bracketDepth |-> 0, parenDepth |-> 0,
                  st |-> noString, key |-> <<>>, inKey |-> TRUE, properties |-> <<>>],
                 0, Len(content) - 1>>)
    IN  IF Trim(s.current) # <<>> /\ s.key # <<>>
        THEN Append(s.properties, [key |-> s.key, value |-> Trim(s.current)])
        ELSE s.properties


\* One pass of the while loop of formatObjects, taken when the loop's i has
\* reached index k; the state is [i, st, result]
formatObjectsStep(text, depth, s, k) ==
    LET char == CharAt(text, k)
        st1 == Call("trackString", <<text, k, s.st>>)
        objEnd == Call("findMatchingBrace", <<text, k>>)
    IN  IF k < s.i THEN s
        ELSE IF ~st1.inString /\ char = "{" /\ objEnd # -1
        THEN [i |-> objEnd + 1, st |-> st1,
              result |-> s.result \o Call("formatObject", <<SubSeq(text, k + 1, objEnd + 1), depth>>)]
        ELSE [i |-> k + 1, st |-> st1, result |-> Append(s.result, char)]

formatObjectsRange(text, depth, s, lo, hi) ==
    IF lo > hi THEN s
    ELSE IF lo = hi THEN Call("formatObjectsStep", <<text, depth, s, lo>>)
    ELSE LET left == Call("formatObjectsRange", <<text, depth, s, lo, (lo + hi) \div 2>>)
         IN  \* the loop has left the left half when its i is past the range
             IF left.i > hi THEN left
             ELSE Call("formatObjectsRange", <<text, depth, left, (lo + hi) \div 2 + 1, hi>>)

formatObjects(text, depth) ==
    Call("formatObjectsRange", <<text, depth, [i |-> 0, st |-> noString, result |-> <<>>],
                       0, Len(text) - 1>>).result

formatObject(obj0, depth) ==
    LET obj == Trim(obj0)
        content == Trim(SubSeq(obj, 2, Len(obj) - 1))
        properties == Call("parseObjectProperties", <<content>>)
        hasEscapedNewlines == \E i \in 1..Len(properties) : Includes(properties[i].value, <<"\\", "n">>)
        hasComplexValues == \E i \in 1..Len(properties) :
                                \/ Contains(properties[i].value, "{")
                                \/ Contains(properties[i].value, "[")
                                \/ Len(properties[i].value) > 60
        indent == Repeat(" ", (depth + 1) * indentSize)
        closeIndent == Repeat(" ", depth * indentSize)
    IN  IF obj = <<>> \/ Head(obj) # "{" \/ obj[Len(obj)] # "}" THEN obj
        ELSE IF content = <<>> THEN Chars("{}")
        ELSE IF hasEscapedNewlines THEN obj
        ELSE IF ~hasComplexValues /\ Len(properties) <= 3 /\ Len(content) < 80
        THEN Chars("{ ")
             \o JoinWith([i \in 1..Len(properties) |->
                             properties[i].key \o Chars(": ") \o properties[i].value], Chars(", "))
             \o Chars(" }")
        ELSE <<"{", "\n">>
             \o JoinWith([i \in 1..Len(properties) |->
                             indent \o properties[i].key \o Chars(": ")
                                 \o Call("formatObjects", <<properties[i].value, depth + 1>>)], <<",", "\n">>)
             \o <<"\n">> \o closeIndent \o <<"}">>

formatValue(value, depth) == Call("formatObjects", <<Trim(value), depth>>)

formatStatement(statement) ==
    LET m == Call("assignmentMatch", <<statement>>)
    IN  IF m.matched THEN m.name \o Chars(" = ") \o Call("formatValue", <<m.value, 0>>)
        ELSE Call("formatValue", <<statement, 0>>)

\* PrettyPrinter.format(code)
format(code) ==
    LET lines == Call("Split", <<code, <<"\n", "\n">> >>)
    IN  JoinWith([i \in 1..Len(lines) |-> Call("formatStatement", <<lines[i]>>)], <<"\n", "\n">>)

\* Decompiler.decompile(template)
decompile(template) ==
    LET raw == Call("decompileLines", <<template>>)
    IN  IF raw.ok THEN SOk(Call("format", <<raw.s>>)) ELSE SThrow

(***************************************************************************)
(* Comparison of trees as the round-trip test compares them.               *)
(***************************************************************************)
(* The calls of the program's functions.  Call(f, a) is the function f      *)
(* applied to the arguments a; every function above calls the others      *)
(* through it, so that each function's definition stands once in the      *)
(* expression that an action evaluates.                                   *)
(***************************************************************************)
Call(f, a) ==
    CASE f = "skipLineComment" -> skipLineComment(a[1], a[2])
      [] f = "skipWhitespaceAndComments" -> skipWhitespaceAndComments(a[1], a[2])
      [] f = "tryDoubleChar" -> tryDoubleChar(a[1], a[2], a[3], a[4])
      [] f = "readStringLoop" -> readStringLoop(a[1], a[2], a[3], a[4])
      [] f = "readString" -> readString(a[1], a[2], a[3], a[4])
      [] f = "readWhile" -> readWhile(a[1], a[2], a[3], a[4])
      [] f = "readNumber" -> readNumber(a[1], a[2], a[3], a[4])
      [] f = "readIdentifier" -> readIdentifier(a[1], a[2], a[3], a[4])
      [] f = "nextToken" -> nextToken(a[1], a[2])
      [] f = "peek" -> peek(a[1], a[2])
      [] f = "isAWSPseudoParameter" -> isAWSPseudoParameter(a[1])
      [] f = "validateDeclared" -> validateDeclared(a[1], a[2])
      [] f = "IdentifierWithContext" -> IdentifierWithContext(a[1], a[2])
      [] f = "MemberChain" -> MemberChain(a[1], a[2])
      [] f = "MemberAccessToCloudFormation" -> MemberAccessToCloudFormation(a[1])
      [] f = "GetAttArrayToCloudFormation" -> GetAttArrayToCloudFormation(a[1])
      [] f = "unwrapValue" -> unwrapValue(a[1], a[2])
      [] f = "ArgsOrFirst" -> ArgsOrFirst(a[1], a[2])
      [] f = "RenderList" -> RenderList(a[1], a[2], a[3], a[4])
      [] f = "RenderProps" -> RenderProps(a[1], a[2], a[3], a[4])
      [] f = "RenderAttributes" -> RenderAttributes(a[1], a[2], a[3], a[4])
      [] f = "FunctionCallWithContext" -> FunctionCallWithContext(a[1], a[2])
      [] f = "buildResource" -> buildResource(a[1], a[2], a[3])
      [] f = "Render" -> Render(a[1], a[2], a[3])
      [] f = "toCloudFormation" -> toCloudFormation(a[1])
      [] f = "toCloudFormationWithContext" -> toCloudFormationWithContext(a[1], a[2])
      [] f = "Parser_advance" -> Parser_advance(a[1], a[2])
      [] f = "ParserInit" -> ParserInit(a[1])
      [] f = "expect" -> expect(a[1], a[2], a[3])
      [] f = "KeywordTag" -> KeywordTag(a[1])
      [] f = "parseExpression" -> parseExpression(a[1], a[2])
      [] f = "parseOrLoop" -> parseOrLoop(a[1], a[2], a[3])
      [] f = "parseOrExpression" -> parseOrExpression(a[1], a[2])
      [] f = "parseAndLoop" -> parseAndLoop(a[1], a[2], a[3])
      [] f = "parseAndExpression" -> parseAndExpression(a[1], a[2])
      [] f = "parseEqualityExpression" -> parseEqualityExpression(a[1], a[2])
      [] f = "parseUnaryExpression" -> parseUnaryExpression(a[1], a[2])
      [] f = "parseBracketStrings" -> parseBracketStrings(a[1], a[2], a[3])
      [] f = "parseMemberLoop" -> parseMemberLoop(a[1], a[2], a[3])
      [] f = "parseMemberExpression" -> parseMemberExpression(a[1], a[2])
      [] f = "parsePrimary" -> parsePrimary(a[1], a[2])
      [] f = "parseEntityDeclaration" -> parseEntityDeclaration(a[1], a[2], a[3])
      [] f = "parseResourceTypeLoop" -> parseResourceTypeLoop(a[1], a[2], a[3])
      [] f = "parseResourceType" -> parseResourceType(a[1], a[2])
      [] f = "parseAttributesLoop" -> parseAttributesLoop(a[1], a[2], a[3])
      [] f = "parseResource" -> parseResource(a[1], a[2])
      [] f = "parseArgsLoop" -> parseArgsLoop(a[1], a[2], a[3], a[4])
      [] f = "parseFunctionCall" -> parseFunctionCall(a[1], a[2], a[3])
      [] f = "parseObjectLoop" -> parseObjectLoop(a[1], a[2], a[3])
      [] f = "parseObject" -> parseObject(a[1], a[2])
      [] f = "parseArrayLoop" -> parseArrayLoop(a[1], a[2], a[3])
      [] f = "parseArray" -> parseArray(a[1], a[2])
      [] f = "parseSectionDeclaration" -> parseSectionDeclaration(a[1], a[2], a[3])
      [] f = "parseAssignment" -> parseAssignment(a[1], a[2])
      [] f = "parseStatement" -> parseStatement(a[1], a[2])
      [] f = "parseLoop" -> parseLoop(a[1], a[2], a[3])
      [] f = "parse" -> parse(a[1])
      [] f = "collectDeclarations" -> collectDeclarations(a[1], a[2])
      [] f = "sectionKey" -> sectionKey(a[1])
      [] f = "addAssignmentToTemplate" -> addAssignmentToTemplate(a[1], a[2], a[3])
      [] f = "addTopLevelStatement" -> addTopLevelStatement(a[1], a[2])
      [] f = "addStatements" -> addStatements(a[1], a[2], a[3])
      [] f = "TemplateToCloudFormation" -> TemplateToCloudFormation(a[1])
      [] f = "compile" -> compile(a[1])
      [] f = "ReplaceAll" -> ReplaceAll(a[1], a[2], a[3])
      [] f = "escapeString" -> escapeString(a[1])
      [] f = "ToStr" -> ToStr(a[1])
      [] f = "Entries" -> Entries(a[1])
      [] f = "Prop" -> Prop(a[1], a[2])
      [] f = "Quote" -> Quote(a[1])
      [] f = "needsQuoting" -> needsQuoting(a[1])
      [] f = "quoteKeyIfNeeded" -> quoteKeyIfNeeded(a[1])
      [] f = "JSONStringify" -> JSONStringify(a[1])
      [] f = "valuesToSource" -> valuesToSource(a[1], a[2])
      [] f = "entriesToSource" -> entriesToSource(a[1], a[2])
      [] f = "objectToSource" -> objectToSource(a[1])
      [] f = "valueToSource" -> valueToSource(a[1])
      [] f = "getAttToSource" -> getAttToSource(a[1])
      [] f = "firstFnKey" -> firstFnKey(a[1])
      [] f = "objectValueToSource" -> objectValueToSource(a[1])
      [] f = "intrinsicToSource" -> intrinsicToSource(a[1], a[2])
      [] f = "notToSource" -> notToSource(a[1])
      [] f = "subToSource" -> subToSource(a[1])
      [] f = "attributeFormatter" -> attributeFormatter(a[1], a[2])
      [] f = "attributesToSource" -> attributesToSource(a[1], a[2], a[3])
      [] f = "resourceToSource" -> resourceToSource(a[1], a[2])
      [] f = "sectionLines" -> sectionLines(a[1], a[2], a[3])
      [] f = "declarationLines" -> declarationLines(a[1], a[2], a[3])
      [] f = "headerLines" -> headerLines(a[1])
      [] f = "decompileLines" -> decompileLines(a[1])
      [] f = "IndexOf" -> IndexOf(a[1], a[2], a[3])
      [] f = "Split" -> Split(a[1], a[2])
      [] f = "PrefixLen" -> PrefixLen(a[1], a[2])
      [] f = "assignmentMatch" -> assignmentMatch(a[1])
      [] f = "trackString" -> trackString(a[1], a[2], a[3])
      [] f = "findMatchingBraceStep" -> findMatchingBraceStep(a[1], a[2], a[3])
      [] f = "findMatchingBraceRange" -> findMatchingBraceRange(a[1], a[2], a[3], a[4])
      [] f = "findMatchingBrace" -> findMatchingBrace(a[1], a[2])
      [] f = "parseObjectPropertiesStep" -> parseObjectPropertiesStep(a[1], a[2], a[3])
      [] f = "parseObjectPropertiesRange" -> parseObjectPropertiesRange(a[1], a[2], a[3], a[4])
      [] f = "parseObjectProperties" -> parseObjectProperties(a[1])
      [] f = "formatObjectsStep" -> formatObjectsStep(a[1], a[2], a[3], a[4])
      [] f = "formatObjectsRange" -> formatObjectsRange(a[1], a[2], a[3], a[4], a[5])
      [] f = "formatObjects" -> formatObjects(a[1], a[2])
      [] f = "formatObject" -> formatObject(a[1], a[2])
      [] f = "formatValue" -> formatValue(a[1], a[2])
      [] f = "formatStatement" -> formatStatement(a[1])
      [] f = "format" -> format(a[1])
      [] f = "decompile" -> decompile(a[1])

(***************************************************************************)
\* expect(a).toEqual(b): arrays in order, objects by key whatever the order
RECURSIVE TreeEq(_, _)
TreeEq(a, b) ==
    IF a.k # b.k THEN FALSE
    ELSE CASE a.k = "arr" ->
                /\ Len(a.items) = Len(b.items)
                /\ \A i \in 1..Len(a.items) : TreeEq(a.items[i], b.items[i])
           [] a.k = "obj" ->
                /\ Len(a.props) = Len(b.props)
                /\ \A i \in 1..Len(a.props) :
                      /\ HasKey(b.props, a.props[i][1])
                      /\ TreeEq(a.props[i][2], Get(b.props, a.props[i][1]))
           [] OTHER -> a = b

\* The properties of an object without those that Drops(key, value) names
Without(props, Drops(_, _)) ==
    LET keep == {i \in 1..Len(props) : ~Drops(props[i][1], props[i][2])}
        nth(n) == CHOOSE i \in keep : Cardinality({j \in keep : j <= i}) = n
    IN  [n \in 1..Cardinality(keep) |-> props[nth(n)]]

isEmptyObject(v) == v.k = "obj" /\ v.props = <<>>

\* normalizeTemplate of the round-trip test: the empty Mappings, Conditions,
\* Parameters, Outputs and Resources sections go, and every resource's empty Properties
normalizeTemplate(template) ==
    LET sections == {Chars("Mappings"), Chars("Conditions"), Chars("Parameters"),
                     Chars("Outputs"), Chars("Resources")}
        kept == Without(template.props, LAMBDA key, v : key \in sections /\ isEmptyObject(v))
        resource(r) == IF r.k = "obj"
                       THEN Obj(Without(r.props, LAMBDA key, v : key = Chars("Properties") /\ isEmptyObject(v)))
                       ELSE r
        resources(rs) == IF rs.k = "obj"
                         THEN Obj([i \in 1..Len(rs.props) |-> <<rs.props[i][1], resource(rs.props[i][2])>>])
                         ELSE rs
    IN  Obj([i \in 1..Len(kept) |->
                IF kept[i][1] = Chars("Resources") THEN <<kept[i][1], resources(kept[i][2])>>
                ELSE kept[i]])

(***************************************************************************)
(* The trees and the sources that the operations are run on.               *)
(***************************************************************************)
Ref(name) == Obj(<< <<Chars("Ref"), Str(name)>> >>)
Fn(name, arg) == Obj(<< <<Chars("Fn::") \o name, arg>> >>)
GetAtt(parts) == Fn(Chars("GetAtt"), Arr([i \in 1..Len(parts) |-> Str(parts[i])]))
StringParameter == Obj(<< <<Chars("Type"), Str(Chars("String"))>> >>)

\* All sequences over S of a length in lo..hi
SeqsOf(S, lo, hi) == UNION {[1..n -> S] : n \in lo..hi}

\* An operand of an operator: its source text and the tree it renders to
\* when A, B and C are declared parameters
Operand(text, tree) == [text |-> text, tree |-> tree]

UnaryOperands ==
    {Operand(Chars("A"), Ref(Chars("A"))),
     Operand(Chars("'x'"), Str(Chars("x"))),
     Operand(Chars("AWS.Region"), Ref(Chars("AWS::Region"))),
     Operand(Chars("R.Arn"), GetAtt(<<Chars("R"), Chars("Arn")>>))}

EqualityOperands ==
    {Operand(Chars("A"), Ref(Chars("A"))),
     Operand(Chars("B == 'x'"), Fn(Chars("Equals"), Arr(<<Ref(Chars("B")), Str(Chars("x"))>>))),
     Operand(Chars("!C"), Fn(Chars("Not"), Arr(<<Ref(Chars("C"))>>))),
     Operand(Chars("(A || B)"), Fn(Chars("Or"), Arr(<<Ref(Chars("A")), Ref(Chars("B"))>>)))}

\* The declarations of the parameters A, B and C, as source and as section
ParameterNames == <<Chars("A"), Chars("B"), Chars("C")>>

ParametersSource ==
    Flatten([i \in 1..Len(ParameterNames) |->
                ParameterNames[i] \o Chars(" = Parameter { Type: 'String' }\n")])

ParametersSection == Obj([i \in 1..Len(ParameterNames) |-> <<ParameterNames[i], StringParameter>>])

\* What an operation is run on: a tree (mode "tree"), a source text (mode
\* "source") or a syntax node with a compilation context (mode "node").
\* family and tag say how it was built, name and n carry the identifier or
\* function name and the number of arguments or segments it was built from,
\* expected is the tree that the enclosing construct is supposed to give.
Input(mode, family, tag, name, n, tree, source, node, context, expected) ==
    [mode |-> mode, family |-> family, tag |-> tag, name |-> name, n |-> n, tree |-> tree,
     source |-> source, node |-> node, context |-> context, expected |-> expected]

SourceInput(family, tag, name, n, source, context, expected) ==
    Input("source", family, tag, name, n, Undefined, source, Nil, context, expected)

TreeInput(family, tag, name, n, tree, expected) ==
    Input("tree", family, tag, name, n, tree, <<>>, Nil, EmptyContext, expected)

NodeInput(family, tag, name, n, node, context, expected) ==
    Input("node", family, tag, name, n, Undefined, <<>>, node, context, expected)

\* ---- sources: a && b || c && d over the operands
PrecedenceInputs ==
    {SourceInput("precedence", "", <<>>, 4,
        ParametersSource \o Chars("X = Condition ") \o a.text \o Chars(" && ") \o b.text
            \o Chars(" || ") \o c.text \o Chars(" && ") \o d.text,
        [EmptyContext EXCEPT !.parameters = {Chars("A"), Chars("B"), Chars("C")}],
        Fn(Chars("Or"), Arr(<<Fn(Chars("And"), Arr(<<a.tree, b.tree>>)),
                              Fn(Chars("And"), Arr(<<c.tree, d.tree>>))>>)))
     : a \in EqualityOperands, b \in EqualityOperands, c \in EqualityOperands, d \in EqualityOperands}

\* ---- sources: a != b and !(a == b) over the operands
NotEqualInputs ==
    {SourceInput("notequal", form, <<>>, 2,
        ParametersSource \o Chars("X = Condition ")
            \o (IF form = "sugar" THEN a.text \o Chars(" != ") \o b.text
                ELSE Chars("!(") \o a.text \o Chars(" == ") \o b.text \o Chars(")")),
        [EmptyContext EXCEPT !.parameters = {Chars("A"), Chars("B"), Chars("C")}],
        Fn(Chars("Not"), Arr(<<Fn(Chars("Equals"), Arr(<<a.tree, b.tree>>))>>)))
     : a \in UnaryOperands, b \in UnaryOperands, form \in {"sugar", "plain"}}

\* ---- sources: an identifier at a position of a declaration
Positions ==
    {"output", "property", "condition", "argument", "element", "parameter", "mapping", "rule",
     "branch", "attribute", "if"}

\* The positions where the rendered identifier is placed in the tree as it is
ValuePositions == Positions \ {"attribute", "if"}

\* The declaration that holds the identifier text at the position
PositionSource(position, text) ==
    CASE position = "output" -> Chars("O = Output { Value: ") \o text \o Chars(" }")
      [] position = "property" -> Chars("R = Resource AWS::S3::Bucket { P: ") \o text \o Chars(" }")
      [] position = "condition" -> Chars("K = Condition !") \o text
      [] position = "argument" -> Chars("O = Output { Value: Base64(") \o text \o Chars(") }")
      [] position = "element" -> Chars("O = Output { Value: [1, ") \o text \o Chars("] }")
      [] position = "parameter" -> Chars("P = Parameter { Default: ") \o text \o Chars(" }")
      [] position = "mapping" -> Chars("M = Mapping { a: { b: ") \o text \o Chars(" } }")
      [] position = "rule" -> Chars("U = Rule { Assertions: [") \o text \o Chars("] }")
      [] position = "branch" -> Chars("O = Output { Value: If(Q, ") \o text \o Chars(", 2) }")
      [] position = "attribute" -> Chars("R = Resource AWS::S3::Bucket {} DependsOn(") \o text \o Chars(")")
      [] position = "if" -> Chars("O = Output { Value: If(") \o text \o Chars(", 1, 2) }")

\* <<section, name>> of the declaration of a position
PositionEntry(position) ==
    CASE position \in {"output", "argument", "element", "branch", "if"} -> <<Chars("Outputs"), Chars("O")>>
      [] position \in {"property", "attribute"} -> <<Chars("Resources"), Chars("R")>>
      [] position = "condition" -> <<Chars("Conditions"), Chars("K")>>
      [] position = "parameter" -> <<Chars("Parameters"), Chars("P")>>
      [] position = "mapping" -> <<Chars("Mappings"), Chars("M")>>
      [] position = "rule" -> <<Chars("Rules"), Chars("U")>>

One == Num(FALSE, 1, <<>>)
Two == Num(FALSE, 2, <<>>)
BucketType == <<Chars("Type"), Str(Chars("AWS::S3::Bucket"))>>

\* The tree of the declaration of a position when the identifier renders to v
PositionTree(position, v) ==
    CASE position = "output" -> Obj(<< <<Chars("Value"), v>> >>)
      [] position = "property" -> Obj(<< BucketType, <<Chars("Properties"), Obj(<< <<Chars("P"), v>> >>)>> >>)
      [] position = "condition" -> Fn(Chars("Not"), Arr(<<v>>))
      [] position = "argument" -> Obj(<< <<Chars("Value"), Fn(Chars("Base64"), v)>> >>)
      [] position = "element" -> Obj(<< <<Chars("Value"), Arr(<<One, v>>)>> >>)
      [] position = "parameter" -> Obj(<< <<Chars("Default"), v>> >>)
      [] position = "mapping" -> Obj(<< <<Chars("a"), Obj(<< <<Chars("b"), v>> >>)>> >>)
      [] position = "rule" -> Obj(<< <<Chars("Assertions"), Arr(<<v>>)>> >>)
      [] position = "branch" -> Obj(<< <<Chars("Value"), Fn(Chars("If"), Arr(<<Str(Chars("Q")), v, Two>>))>> >>)
      [] position = "attribute" ->
            Obj(<< BucketType, <<Chars("Properties"), Obj(<<>>)>>, <<Chars("DependsOn"), v>> >>)
      [] position = "if" -> Obj(<< <<Chars("Value"), Fn(Chars("If"), Arr(<<v, One, Two>>))>> >>)

\* The entry of the position's declaration in a compiled tree
Entry(template, position) ==
    LET section == Get(template.props, PositionEntry(position)[1])
    IN  IF section.k = "obj" THEN Get(section.props, PositionEntry(position)[2]) ELSE Undefined

\* The ways to declare a name: which of the four kinds of declaration it has
Declarations(name) ==
    {[parameters |-> ps, conditions |-> cs, resources |-> rs, mappings |-> ms] :
        ps \in SUBSET {name}, cs \in SUBSET {name}, rs \in SUBSET {name}, ms \in SUBSET {name}}

\* The source that declares the names of a context
DeclarationsSource(name, context) ==
    (IF name \in context.parameters THEN name \o Chars(" = Parameter { Type: 'String' }\n") ELSE <<>>)
    \o (IF name \in context.conditions THEN name \o Chars(" = Condition 'a' == 'b'\n") ELSE <<>>)
    \o (IF name \in context.resources THEN name \o Chars(" = Resource AWS::SNS::Topic\n") ELSE <<>>)
    \o (IF name \in context.mappings THEN name \o Chars(" = Mapping { m: { k: 'v' } }\n") ELSE <<>>)

IdentifierInputs ==
    {SourceInput("identifier", position, Chars("x"), 0,
        DeclarationsSource(Chars("x"), context) \o PositionSource(position, Chars("x")),
        context, Undefined)
     : position \in Positions, context \in Declarations(Chars("x"))}

\* ---- sources: AWS.N at a position, nothing declared
PseudoNames == {Chars("Region"), Chars("StackName"), Chars("NoValue"), Chars("Resource")}

PseudoInputs ==
    {SourceInput("pseudo", position, N, 0,
        PositionSource(position, Chars("AWS.") \o N), EmptyContext, Undefined)
     : position \in Positions, N \in PseudoNames}

\* ---- sources and nodes: a function applied to 1..MaxArgs arguments
MaxArgs == 3

\* The i-th argument: the text 'a<i>' and the tree it renders to
ArgumentText(i) == <<"'", "a">> \o NatToString(i) \o <<"'">>
ArgumentTree(i) == Str(<<"a">> \o NatToString(i))

\* The names that only operators produce: parseFunctionCall rejects them
OperatorFunctions == {Chars("Not"), Chars("And"), Chars("Or"), Chars("Equals")}

CallableFunctions ==
    {Chars("Join"), Chars("Split"), Chars("Select"), Chars("FindInMap"), Chars("Cidr"),
     Chars("Base64"), Chars("ImportValue"), Chars("GetAZs"), Chars("If"), Chars("Sub")}

CallInputs ==
    {SourceInput("call", "", name, n,
        Chars("O = Output { Value: ") \o name \o <<"(">>
            \o JoinWith([i \in 1..n |-> ArgumentText(i)], Chars(", ")) \o Chars(") }"),
        EmptyContext, Undefined)
     : name \in CallableFunctions, n \in 1..MaxArgs}

FunctionNodeInputs ==
    {NodeInput("function", "", name, n,
        FunctionCallNode(name, [i \in 1..n |-> LiteralNode(ArgumentTree(i))]), EmptyContext, Undefined)
     : name \in OperatorFunctions \cup CallableFunctions, n \in 1..MaxArgs}

\* ---- nodes: an identifier under every combination of declarations
IdentifierNodeInputs ==
    {NodeInput("identifier", "", name, 0, IdentifierNode(name), context, Undefined)
     : name \in {Chars("x"), Chars("AWS::Region")}, context \in Declarations(Chars("x"))}

\* ---- trees: a value as a resource property and as an output value
ConditionK == Fn(Chars("Equals"), Arr(<<Ref(Chars("A")), Str(Chars("x"))>>))

\* The resource is named resource, and ValueTemplate names it R
ValueTemplateFor(resource, v) ==
    Obj(<< <<Chars("Parameters"), ParametersSection>>,
           <<Chars("Conditions"), Obj(<< <<Chars("K"), ConditionK>> >>)>>,
           <<Chars("Resources"),
             Obj(<< <<resource, Obj(<< BucketType, <<Chars("Properties"), Obj(<< <<Chars("P"), v>> >>)>> >>)>> >>)>>,
           <<Chars("Outputs"), Obj(<< <<Chars("O"), Obj(<< <<Chars("Value"), v>> >>)>> >>)>> >>)

ValueTemplate(v) == ValueTemplateFor(Chars("R"), v)

\* In a compiled tree of that shape, the value in both places (undefined
\* where the tree has another shape)
Path(v, keys) ==
    LET step(i, w) == IF w.k = "obj" THEN Get(w.props, keys[i]) ELSE Undefined
        RECURSIVE walk(_, _)
        walk(i, w) == IF i > Len(keys) THEN w ELSE walk(i + 1, step(i, w))
    IN  walk(1, v)

PropertyValueOf(template, resource) ==
    Path(template, <<Chars("Resources"), resource, Chars("Properties"), Chars("P")>>)

PropertyValue(template) == PropertyValueOf(template, Chars("R"))

OutputValue(template) == Path(template, <<Chars("Outputs"), Chars("O"), Chars("Value")>>)

MaxSegments == 3

Segments == {Chars("Arn"), Chars("x"), Chars("a.b")}

\* The logical names of the resource whose attribute is read
ResourceNames == {Chars("R"), Chars("AWS")}

GetAttInputs ==
    {TreeInput("getatt", "", R, Len(segs), ValueTemplateFor(R, GetAtt(<<R>> \o segs)),
               GetAtt(<<R>> \o segs))
     : R \in ResourceNames, segs \in SeqsOf(Segments, 1, MaxSegments)}

\* The operands of Fn::Equals in a tree: values, and a comparison
TreeOperands ==
    UnaryOperands
        \cup {Operand(Chars("B == 'y'"), Fn(Chars("Equals"), Arr(<<Ref(Chars("B")), Str(Chars("y"))>>)))}

NotEqualTreeInputs ==
    {TreeInput("notequal", "", a.text \o Chars(" != ") \o b.text, 2,
               ValueTemplate(Fn(Chars("Not"), Arr(<<Fn(Chars("Equals"), Arr(<<a.tree, b.tree>>))>>))),
               Fn(Chars("Not"), Arr(<<Fn(Chars("Equals"), Arr(<<a.tree, b.tree>>))>>)))
     : a \in TreeOperands, b \in TreeOperands}

PseudoTreeInputs ==
    {TreeInput("pseudo", "", N, 0, ValueTemplate(Ref(Chars("AWS::") \o N)), Ref(Chars("AWS::") \o N))
     : N \in PseudoNames}

\* ---- trees: the other values
LongLength == 61

LongString == Repeat("x", LongLength)

Field(key, v) == <<key, v>>

Strings ==
    {Chars("x"), <<>>, Chars("it's"), <<"a", "\\">>, <<"a", "\n", "b">>, <<"\\", "n">>,
     Chars("{"), Chars("} ,"), Chars("a: b, c"), Chars("say \"hi\""), LongString}

Scalars ==
    {Str(s) : s \in Strings}
    \cup {One, Num(TRUE, 1, <<"5">>), Num(FALSE, 0, <<>>), Bool(TRUE), Bool(FALSE), Null}

Arrays ==
    {Arr(<<>>), Arr(<<One, Str(Chars("x"))>>), Arr(<<Arr(<<One>>)>>),
     Arr(<<Obj(<<Field(Chars("a"), One)>>), Ref(Chars("A"))>>)}

Objects ==
    {Obj(<<>>),
     Obj(<<Field(Chars("a"), One)>>),
     Obj(<<Field(Chars("a"), One), Field(Chars("b"), Two), Field(Chars("c"), Str(Chars("x"))),
           Field(Chars("d"), Bool(TRUE))>>),
     Obj(<<Field(Chars("a"), Obj(<<Field(Chars("b"), One)>>)), Field(Chars("c"), Obj(<<>>))>>),
     Obj(<<Field(Chars("a b"), One), Field(Chars("1a"), Two)>>),
     Obj(<<Field(Chars("a"), Str(Chars("it{s"))), Field(Chars("b"), Str(Chars("}")))>>),
     Obj(<<Field(Chars("a"), Str(<<"a", "\\">>)), Field(Chars("b"), Str(Chars(" , ")))>>),
     Obj(<<Field(Chars("a"), Str(<<"a", "\\">>)), Field(Chars("b"), Str(<<"x", "\\">>))>>),
     Obj(<<Field(<<"a", "\\">>, Str(<<"a", "\\">>))>>),
     Obj(<<Field(Chars("a"), Str(<<"a", "\\">>)), Field(Chars("b"), Obj(<<Field(Chars("c"), Str(Chars(" , ")))>>))>>),
     Obj(<<Field(Chars("a"), Str(<<"\\", "n">>)), Field(Chars("b"), Obj(<<Field(Chars("c"), One)>>))>>),
     Obj(<<Field(Chars("a"), Str(SubSeq(LongString, 1, 40))), Field(Chars("b"), Str(SubSeq(LongString, 1, 40)))>>),
     Obj(<<Field(Chars("a"), Str(LongString)), Field(Chars("b"), One)>>)}

Intrinsics ==
    {Ref(Chars("A")),
     Fn(Chars("Join"), Arr(<<Str(Chars(",")), Arr(<<Ref(Chars("A")), Str(Chars("b"))>>)>>)),
     Fn(Chars("Sub"), Str(Chars("x-${A}"))),
     Fn(Chars("Sub"), Arr(<<Str(Chars("${v}")), Obj(<<Field(Chars("v"), Ref(Chars("A")))>>)>>)),
     Fn(Chars("If"), Arr(<<Str(Chars("K")), Str(Chars("a")), Ref(Chars("AWS::NoValue"))>>)),
     Fn(Chars("Select"), Arr(<<Num(FALSE, 0, <<>>), Arr(<<Str(Chars("a")), Str(Chars("b"))>>)>>)),
     Fn(Chars("Split"), Arr(<<Str(Chars(",")), Ref(Chars("B"))>>)),
     Fn(Chars("FindInMap"), Arr(<<Str(Chars("M")), Ref(Chars("AWS::Region")), Str(Chars("k"))>>)),
     Fn(Chars("Base64"), Str(Chars("x"))),
     Fn(Chars("Base64"), Fn(Chars("Sub"), Str(Chars("x")))),
     Fn(Chars("GetAZs"), Str(<<>>)),
     Fn(Chars("ImportValue"), Str(Chars("x")))}

ValueInputs ==
    {TreeInput("value", "", <<>>, 0, ValueTemplate(v), v)
     : v \in Scalars \cup Arrays \cup Objects \cup Intrinsics}

\* ---- trees: condition expressions
ConditionTemplate(c) ==
    Obj(<< <<Chars("Parameters"), ParametersSection>>,
           <<Chars("Conditions"), Obj(<< <<Chars("K"), ConditionK>>, <<Chars("X"), c>> >>)>>,
           <<Chars("Resources"), Obj(<< <<Chars("R"), Obj(<<BucketType>>)>> >>)>> >>)

ConditionValue(template) == Path(template, <<Chars("Conditions"), Chars("X")>>)

ConditionAtoms ==
    {ConditionK, Fn(Chars("Equals"), Arr(<<Ref(Chars("B")), Str(Chars("y"))>>)),
     Obj(<<Field(Chars("Condition"), Str(Chars("K")))>>)}

Junctions == {Chars("And"), Chars("Or")}

ConditionExpressions ==
    {Fn(op, Arr(<<a, b>>)) : op \in Junctions, a \in ConditionAtoms, b \in ConditionAtoms}
    \cup {Fn(Chars("Not"), Arr(<<a>>)) : a \in ConditionAtoms}
    \cup {Fn(Chars("Not"), Arr(<<Fn(op, Arr(<<ConditionK, ConditionK>>))>>)) : op \in Junctions}
    \cup {Fn(op, Arr(<<Fn(inner, Arr(<<ConditionK, ConditionK>>)), ConditionK>>))
             : op \in Junctions, inner \in Junctions}
    \cup {Fn(op, Arr(<<ConditionK, Fn(inner, Arr(<<ConditionK, ConditionK>>))>>))
             : op \in Junctions, inner \in Junctions}
    \cup {Fn(Chars("Equals"), Arr(<<Fn(op, Arr(<<ConditionK, ConditionK>>)), Str(Chars("x"))>>)) : op \in Junctions}
    \cup {Fn(Chars("Not"), Arr(<<Fn(Chars("Not"), Arr(<<a>>))>>)) : a \in ConditionAtoms}

ConditionInputs ==
    {TreeInput("condition", "", <<>>, 0, ConditionTemplate(c), c) : c \in ConditionExpressions}

\* ---- trees: a resource with absent, empty or filled Properties and an attribute
ResourceAttribute(fields, text) == [fields |-> fields, text |-> text]

ResourceAttributes ==
    {ResourceAttribute(<<>>, <<>>),
     ResourceAttribute(<<Field(Chars("DependsOn"), Str(Chars("Q")))>>, Chars(" DependsOn('Q')")),
     ResourceAttribute(<<Field(Chars("DependsOn"), Arr(<<Str(Chars("Q")), Str(Chars("Z"))>>))>>,
                       Chars(" DependsOn(['Q', 'Z'])")),
     ResourceAttribute(<<Field(Chars("Condition"), Str(Chars("K")))>>, Chars(" Condition(K)")),
     ResourceAttribute(<<Field(Chars("DeletionPolicy"), Str(Chars("Retain")))>>,
                       Chars(" DeletionPolicy('Retain')")),
     ResourceAttribute(<<Field(Chars("Metadata"), Obj(<<Field(Chars("a"), One)>>))>>,
                       Chars(" Metadata({ a: 1 })"))}

ResourceProperties(tag) ==
    CASE tag = "absent" -> <<>>
      [] tag = "empty" -> <<Field(Chars("Properties"), Obj(<<>>))>>
      [] tag = "one" -> <<Field(Chars("Properties"), Obj(<<Field(Chars("P"), One)>>))>>

ResourceTemplate(resource) ==
    Obj(<< <<Chars("Conditions"), Obj(<< <<Chars("K"), Fn(Chars("Equals"), Arr(<<One, One>>))>> >>)>>,
           <<Chars("Resources"), Obj(<< <<Chars("R"), resource>> >>)>> >>)

ResourceValue(template) == Path(template, <<Chars("Resources"), Chars("R")>>)

\* name is the statement that the documentation of empty properties gives for R
ResourceInputs ==
    {TreeInput("resource", tag,
        Chars("R = Resource AWS::S3::Bucket")
            \o (CASE tag = "absent" -> <<>> [] tag = "empty" -> Chars(" {}") [] tag = "one" -> Chars(" { P: 1 }"))
            \o attr.text,
        0, ResourceTemplate(Obj(<<BucketType>> \o ResourceProperties(tag) \o attr.fields)),
        Obj(<<BucketType>> \o ResourceProperties(tag) \o attr.fields))
     : tag \in {"absent", "empty", "one"}, attr \in ResourceAttributes}

\* ---- sources: a resource with DeletionPolicy(v) or UpdateReplacePolicy(v), v a bare word
PolicyWords ==
    {Chars("Delete"), Chars("Retain"), Chars("RetainExceptOnCreate"), Chars("Snapshot"),
     Chars("InvalidPolicy")}

\* The values that the tests of the resource policies accept
AllowedPolicyValues(policy) ==
    IF policy = "DeletionPolicy"
    THEN {Chars("Delete"), Chars("Retain"), Chars("RetainExceptOnCreate"), Chars("Snapshot")}
    ELSE {Chars("Delete"), Chars("Retain"), Chars("Snapshot")}

PolicyInputs ==
    {SourceInput("policy", policy, v, 0,
        Chars("R = Resource AWS::S3::Bucket { P: 1 } ") \o Chars(policy) \o <<"(">> \o v \o <<")">>,
        EmptyContext, Undefined)
     : policy \in {"DeletionPolicy", "UpdateReplacePolicy"}, v \in PolicyWords}

\* ---- sources: a name followed by ( and 0..MaxArgs arguments, or by ( and a stray comma
ForbiddenNames ==
    {Chars("Equals"), Chars("Or"), Chars("And"), Chars("Not"), Chars("Ref"), Chars("GetAtt")}

OtherNames ==
    {Chars("F"), Chars("Join"), Chars("toString"), Chars("constructor"), Chars("Condition"),
     Chars("true")}

ForbiddenCallInputs ==
    {SourceInput("forbidden", "arguments", name, n,
        Chars("O = Output { Value: ") \o name \o <<"(">>
            \o JoinWith([i \in 1..n |-> ArgumentText(i)], Chars(", ")) \o Chars(") }"),
        EmptyContext,
        FunctionCallNode(name, [i \in 1..n |-> LiteralNode(ArgumentTree(i))]))
     : name \in ForbiddenNames \cup OtherNames, n \in 0..MaxArgs}
    \cup
    {SourceInput("forbidden", "stray comma", name, 0,
        Chars("O = Output { Value: ") \o name \o Chars("(,) }"), EmptyContext, Nil)
     : name \in ForbiddenNames}

\* ---- trees: one string, as a value and as an object key
MaxStringLength == 2

\* The characters escapeString rewrites, the ones readString decodes, and a plain one
EscapeAlphabet == {"n", "\\", "'", "\"", "\n", "\t", "\r"}

EscapeStrings == UNION {[1..k -> EscapeAlphabet] : k \in 0..MaxStringLength}

\* s as a property value of the resource R and as a key in the value of the output O
StringTemplate(s) ==
    Obj(<< <<Chars("Resources"),
             Obj(<< <<Chars("R"), Obj(<< BucketType, <<Chars("Properties"), Obj(<< <<Chars("P"), Str(s)>> >>)>> >>)>> >>)>>,
           <<Chars("Outputs"),
             Obj(<< <<Chars("O"), Obj(<< <<Chars("Value"), Obj(<<Field(s, One)>>)>> >>)>> >>)>> >>)

EscapeInputs == {TreeInput("string", "", s, Len(s), StringTemplate(s), StringTemplate(s)) : s \in EscapeStrings}

\* ---- sources for the lexer alone: every kind of token, comments, line
\* breaks, and texts that end in a lex error
LexerSources ==
    {<<>>,
     Chars("R = Resource AWS::S3::Bucket { P: 'a', Q: -1.5 }"),
     Chars("a == b && !c || d != e"),
     Chars("x # c") \o <<"\n">> \o Chars("  y // d") \o <<"\n">> \o Chars("[1, 2].z(\"s\")"),
     Chars("2Cond 'it") \o <<"\\", "'">> \o Chars("s' "),
     Chars("  @"),
     Chars("a & b"),
     Chars("a 'bc"),
     <<"\n", "\n">> \o Chars(" 'x") \o <<"\n">>,
     Chars("{ 'a") \o <<"\\">>,
     Chars("a | 'b' ~")}

\* A statement with every kind of bracket, cut short after any number of characters
TruncatedText == Chars("O = Output { V: [F('a', -1)] }")

Truncations == {SubSeq(TruncatedText, 1, n) : n \in 1..Len(TruncatedText)}

LexerInputs ==
    {SourceInput("lexer", IF source \in LexerSources THEN "" ELSE "truncated", <<>>, 0, source,
                 EmptyContext, Undefined)
     : source \in LexerSources \cup Truncations}

\* ---- trees: Fn::Sub over a string, and over an array of n elements
SubTemplates == {Chars("x-${A}"), Chars("it's ${v}"), <<>>}

SubVariables == {Obj(<<>>), Obj(<<Field(Chars("v"), Ref(Chars("A")))>>), Obj(<<Field(Chars("v"), Str(Chars("a")))>>)}

SubInputs ==
    {TreeInput("sub", "scalar", t, 0, ValueTemplate(Fn(Chars("Sub"), Str(t))), Str(t)) : t \in SubTemplates}
    \cup {TreeInput("sub", "array", t, 1, ValueTemplate(Fn(Chars("Sub"), Arr(<<Str(t)>>))), Arr(<<Str(t)>>))
          : t \in SubTemplates}
    \cup {TreeInput("sub", "array", t, 2, ValueTemplate(Fn(Chars("Sub"), Arr(<<Str(t), vs>>))), Arr(<<Str(t), vs>>))
          : t \in SubTemplates, vs \in SubVariables}
    \cup {TreeInput("sub", "array", t, 3, ValueTemplate(Fn(Chars("Sub"), Arr(<<Str(t), vs, Str(Chars("b"))>>))),
                    Arr(<<Str(t), vs, Str(Chars("b"))>>))
          : t \in SubTemplates, vs \in SubVariables}

\* ---- trees: the sections in one stored order, their entries in another
MaxEntries == 2

\* The sections in the order decompile() looks for them, with the keyword of
\* the declarations of each ("" for a header section) and the value of an entry
SectionTable ==
    << <<Chars("AWSTemplateFormatVersion"), <<>>, Str(Chars("2010-09-09"))>>,
       <<Chars("Description"), <<>>, Str(Chars("d"))>>,
       <<Chars("Transform"), <<>>, Str(Chars("T"))>>,
       <<Chars("Metadata"), <<>>, Obj(<<Field(Chars("a"), One)>>)>>,
       <<Chars("Globals"), <<>>, Obj(<<Field(Chars("a"), One)>>)>>,
       <<Chars("Parameters"), Chars("Parameter"), StringParameter>>,
       <<Chars("Mappings"), Chars("Mapping"), Obj(<<Field(Chars("k"), Obj(<<Field(Chars("a"), Str(Chars("x")))>>))>>)>>,
       <<Chars("Conditions"), Chars("Condition"), Fn(Chars("Equals"), Arr(<<Str(Chars("a")), Str(Chars("x"))>>))>>,
       <<Chars("Resources"), Chars("Resource"), Obj(<<BucketType>>)>>,
       <<Chars("Outputs"), Chars("Output"), Obj(<<Field(Chars("Value"), Str(Chars("a")))>>)>>,
       <<Chars("Rules"), Chars("Rule"), Obj(<<Field(Chars("a"), One)>>)>> >>

\* The entry names of a section in their stored order: up to MaxEntries of
\* three names, in every order
EntryOrders ==
    {order \in UNION {[1..k -> {"a", "b", "c"}] : k \in 0..MaxEntries} :
        \A i, j \in 1..Len(order) : i # j => order[i] # order[j]}

\* Pa.., Ma.., Co.., Re.., Ou.., Ru..
EntryName(section, e) == <<section[2][1], section[2][2], e>>

\* The value of a section whose entries are stored in the given order
SectionValue(section, order) ==
    IF section[2] = <<>> THEN section[3]
    ELSE Obj([i \in 1..Len(order) |-> <<EntryName(section, order[i]), section[3]>>])

\* The tree with the sections of the given indices of SectionTable, stored in that order
OrderTemplate(indices, order) ==
    Obj([i \in 1..Len(indices) |->
            <<SectionTable[indices[i]][1], SectionValue(SectionTable[indices[i]], order)>>])

\* How each statement of the output is to start: the sections in the order of
\* SectionTable, the entries of a section in their stored order
StatementHeads(present, order) ==
    Flatten([k \in 1..Len(SectionTable) |->
        LET section == SectionTable[k]
        IN  IF k \notin present THEN <<>>
            ELSE IF section[2] = <<>> THEN <<Str(section[1] \o <<" ">>)>>
            ELSE [i \in 1..Len(order) |->
                     Str(EntryName(section, order[i]) \o Chars(" = ") \o section[2] \o <<" ">>)]])

\* The indices of a set of sections, ascending or descending
Ascending(present) == [i \in 1..Cardinality(present) |->
                          CHOOSE k \in present : Cardinality({j \in present : j < k}) = i - 1]
Descending(present) == [i \in 1..Cardinality(present) |->
                           CHOOSE k \in present : Cardinality({j \in present : j > k}) = i - 1]

OrderInputs ==
    {TreeInput("order", stored, <<>>, Len(order),
        OrderTemplate(IF stored = "ascending" THEN Ascending(present) ELSE Descending(present), order),
        Arr(StatementHeads(present, order)))
     : stored \in {"ascending", "descending"},
       present \in {1..Len(SectionTable), 1..Len(SectionTable) \ {2, 7}},
       order \in EntryOrders}

\* ---- sources: R.p1. ... .pn in an output value and under ! in a condition
PropertyNames == {Chars("Arn"), Chars("AWS")}

MemberBases == {Chars("R"), Chars("X"), Chars("AWS")}

MemberInputs ==
    {SourceInput("member", position, base, Len(chain),
        Chars("R = Resource AWS::S3::Bucket {} ")
            \o PositionSource(position, base \o Flatten([i \in 1..Len(chain) |-> <<".">> \o chain[i]])),
        EmptyContext, Arr([i \in 1..Len(chain) |-> Str(chain[i])]))
     : position \in {"output", "condition"}, base \in MemberBases,
       chain \in SeqsOf(PropertyNames, 1, MaxSegments)}

\* ---- sources: a1 && ... && an and a1 || ... || an over operands, some of
\* them chains in parentheses
MaxOperands == 3

ChainOperand(text, node, tree) == [text |-> text, node |-> node, tree |-> tree]

ChainOperands ==
    {ChainOperand(Chars("A"), IdentifierNode(Chars("A")), Ref(Chars("A"))),
     ChainOperand(Chars("(B && C)"),
                  FunctionCallNode(Chars("And"), <<IdentifierNode(Chars("B")), IdentifierNode(Chars("C"))>>),
                  Fn(Chars("And"), Arr(<<Ref(Chars("B")), Ref(Chars("C"))>>))),
     ChainOperand(Chars("(B || C)"),
                  FunctionCallNode(Chars("Or"), <<IdentifierNode(Chars("B")), IdentifierNode(Chars("C"))>>),
                  Fn(Chars("Or"), Arr(<<Ref(Chars("B")), Ref(Chars("C"))>>)))}

ChainOperators == {[text |-> Chars(" && "), name |-> Chars("And")], [text |-> Chars(" || "), name |-> Chars("Or")]}

\* node is the call the chain is to parse to, expected the tree it is to compile to
ChainInputs ==
    {Input("source", "chain", "", op.name, Len(operands), Undefined,
           ParametersSource \o Chars("X = Condition ")
               \o JoinWith([i \in 1..Len(operands) |-> operands[i].text], op.text),
           FunctionCallNode(op.name, [i \in 1..Len(operands) |-> operands[i].node]),
           [EmptyContext EXCEPT !.parameters = {Chars("A"), Chars("B"), Chars("C")}],
           Fn(op.name, Arr([i \in 1..Len(operands) |-> operands[i].tree])))
     : op \in ChainOperators, operands \in SeqsOf(ChainOperands, 2, MaxOperands)}

\* ---- sources: DependsOn and Condition on the resource R, the name written
\* as an identifier, as a quoted string, and in an array
UnwrapDeclarations ==
    Chars("A = Parameter { Type: 'String' } K = Condition A == 'x' ")
        \o Chars("S = Resource AWS::S3::Bucket {} T = Resource AWS::S3::Bucket {} ")

\* The names an attribute may hold: resources for DependsOn, a condition for Condition
UnwrapNames(attribute) == IF attribute = "DependsOn" THEN {Chars("S"), Chars("T")} ELSE {Chars("K")}

UnwrapForm(tag, text, expected) == [tag |-> tag, text |-> text, expected |-> expected]

UnwrapForms(attribute) ==
    {UnwrapForm("identifier", x, Str(x)) : x \in UnwrapNames(attribute)}
    \cup {UnwrapForm("string", Quote(x), Str(x)) : x \in UnwrapNames(attribute)}
    \cup (IF attribute # "DependsOn" THEN {}
          ELSE {UnwrapForm("identifiers", <<"[">> \o JoinWith(xs, Chars(", ")) \o <<"]">>,
                           Arr([i \in 1..Len(xs) |-> Str(xs[i])]))
                : xs \in SeqsOf(UnwrapNames(attribute), 1, 2)}
               \cup {UnwrapForm("strings", <<"[">> \o JoinWith([i \in 1..Len(xs) |-> Quote(xs[i])], Chars(", ")) \o <<"]">>,
                                Arr([i \in 1..Len(xs) |-> Str(xs[i])]))
                     : xs \in SeqsOf(UnwrapNames(attribute), 1, 2)})

UnwrapInputs ==
    UNION {{SourceInput("unwrap", form.tag, Chars(attribute), 0,
                UnwrapDeclarations \o Chars("R = Resource AWS::S3::Bucket {} ") \o Chars(attribute)
                    \o <<"(">> \o form.text \o <<")">>,
                EmptyContext, form.expected)
            : form \in UnwrapForms(attribute)}
           : attribute \in {"DependsOn", "Condition"}}

\* ---- trees: the condition reference {Condition: K} in a value position;
\* name is the text that holds the bare identifier there
ConditionReference == Obj(<<Field(Chars("Condition"), Str(Chars("K")))>>)

ConditionReferenceInputs ==
    {TreeInput("conditionref", "value", Chars("Value: K"), 0,
               ValueTemplate(ConditionReference), ConditionReference),
     TreeInput("conditionref", "element", Chars("Value: [K, 1]"), 0,
               ValueTemplate(Arr(<<ConditionReference, One>>)), Arr(<<ConditionReference, One>>)),
     TreeInput("conditionref", "operand", Chars("X = Condition K || K"), 0,
               ConditionTemplate(Fn(Chars("Or"), Arr(<<ConditionReference, ConditionReference>>))),
               Fn(Chars("Or"), Arr(<<ConditionReference, ConditionReference>>))),
     TreeInput("conditionref", "negated", Chars("X = Condition !K"), 0,
               ConditionTemplate(Fn(Chars("Not"), Arr(<<ConditionReference>>))),
               Fn(Chars("Not"), Arr(<<ConditionReference>>)))}

\* ---- sources: If(c, rest...) as an output value and as a resource property,
\* c declared as a parameter, a condition, both or neither
MaxRest == 2

IfNameContexts ==
    {[parameters |-> ps, conditions |-> cs, resources |-> {}, mappings |-> {}] :
        ps \in SUBSET {Chars("x")}, cs \in SUBSET {Chars("x")}}

\* The texts of the arguments after the first: a literal, the name c itself, a pseudo parameter
IfRestTexts == {Chars("'a'"), Chars("x"), Chars("AWS.NoValue")}

\* The tree of an argument after the first by the rules of every other place:
\* Undefined when the argument is an identifier that is not declared
IfRestTree(text, context) ==
    CASE text = Chars("'a'") -> Str(Chars("a"))
      [] text = Chars("AWS.NoValue") -> Ref(Chars("AWS::NoValue"))
      [] text = Chars("x") ->
            IF Chars("x") \in context.parameters THEN Ref(Chars("x"))
            ELSE IF Chars("x") \in context.conditions
            THEN Obj(<<Field(Chars("Condition"), Str(Chars("x")))>>)
            ELSE Undefined

IfNameInputs ==
    {SourceInput("ifname", position, Chars("x"), Len(rest),
        DeclarationsSource(Chars("x"), context)
            \o PositionSource(position, Chars("If(x, ") \o JoinWith(rest, Chars(", ")) \o <<")">>),
        context, Arr([i \in 1..Len(rest) |-> IfRestTree(rest[i], context)]))
     : position \in {"output", "property"}, context \in IfNameContexts,
       rest \in SeqsOf(IfRestTexts, 1, MaxRest)}

\* ---- sources: the same statements in every order; P, K, R are declared by
\* the statements that are there, and each one is referred to by another
OrderStatements ==
    <<Chars("P = Parameter { Type: 'String' }"),
      Chars("K = Condition P == 'a'"),
      Chars("R = Resource AWS::S3::Bucket { A: P, B: K }"),
      Chars("O = Output { Value: [R, If(K, P, 'b')] }")>>

\* The statements that are present: all four, or all but one
StatementSets == {S \in SUBSET (1..4) : Cardinality(S) >= 3}

Orderings(S) == {o \in [1..Cardinality(S) -> S] : \A i, j \in 1..Cardinality(S) : o[i] = o[j] => i = j}

\* A statement refers to a name that no statement of S declares
RefersToUndeclared(S) ==
    \/ 1 \notin S /\ S \cap {2, 3, 4} # {}
    \/ 2 \notin S /\ 3 \in S
    \/ 3 \notin S /\ 4 \in S

\* The tree of the statements of S when every reference resolves
StatementsTree(S) ==
    Obj(<< <<Chars("Resources"),
             Obj(IF 3 \in S
                 THEN << <<Chars("R"), Obj(<<BucketType,
                            <<Chars("Properties"),
                              Obj(<<Field(Chars("A"), Ref(Chars("P"))),
                                    Field(Chars("B"), Obj(<<Field(Chars("Condition"), Str(Chars("K")))>>))>>)>> >>)>> >>
                 ELSE <<>>)>> >>
        \o (IF 1 \in S
            THEN << <<Chars("Parameters"),
                      Obj(<<Field(Chars("P"), Obj(<<Field(Chars("Type"), Str(Chars("String")))>>))>>)>> >>
            ELSE <<>>)
        \o (IF 2 \in S
            THEN << <<Chars("Conditions"),
                      Obj(<<Field(Chars("K"), Fn(Chars("Equals"), Arr(<<Ref(Chars("P")), Str(Chars("a"))>>)))>>)>> >>
            ELSE <<>>)
        \o (IF 4 \in S
            THEN << <<Chars("Outputs"),
                      Obj(<<Field(Chars("O"),
                            Obj(<<Field(Chars("Value"),
                                  Arr(<<Ref(Chars("R")),
                                        Fn(Chars("If"), Arr(<<Str(Chars("K")), Ref(Chars("P")),
                                                              Str(Chars("b"))>>))>>))>>))>>)>> >>
            ELSE <<>>))

PermutedInputs ==
    UNION {{SourceInput("permuted", IF o[1] = 4 THEN "last first" ELSE "", <<>>, Cardinality(S),
        JoinWith([i \in 1..Cardinality(S) |-> OrderStatements[o[i]]], <<"\n">>),
        EmptyContext, IF RefersToUndeclared(S) THEN Undefined ELSE StatementsTree(S))
      : o \in Orderings(S)} : S \in StatementSets}

\* ---- trees: a resource with some of the eight attachment fields, in the
\* order of the table and in the opposite order, each field with a value of
\* its usual kind or with an empty one
MaxFields == 2

AttachmentValue(key) ==
    CASE key \in {Chars("Metadata"), Chars("CreationPolicy"), Chars("UpdatePolicy")} -> Obj(<<Field(Chars("a"), One)>>)
      [] key = Chars("DependsOn") -> Str(Chars("Q"))
      [] key = Chars("Condition") -> Str(Chars("K"))
      [] key = Chars("Version") -> Str(Chars("1.0"))
      [] OTHER -> Str(Chars("Retain"))

EmptyValues == {Str(<<>>), Null, Bool(FALSE), Num(FALSE, 0, <<>>)}

FieldSets == {S \in SUBSET (1..Len(attributeOrder)) : Cardinality(S) <= MaxFields} \cup {1..Len(attributeOrder)}

\* The fields of S, ascending or descending by their place in the table
FieldsOf(S, ascending) ==
    LET nth(n) == CHOOSE i \in S : Cardinality({j \in S : IF ascending THEN j <= i ELSE j >= i}) = n
    IN  [n \in 1..Cardinality(S) |-> Field(attributeOrder[nth(n)], AttachmentValue(attributeOrder[nth(n)]))]

AttachmentTemplate(fields) ==
    Obj(<< <<Chars("Resources"),
             Obj(<< <<Chars("R"), Obj(<<BucketType, Field(Chars("Properties"), Obj(<<Field(Chars("P"), One)>>))>>
                                      \o fields)>> >>)>> >>)

AttachmentInputs ==
    {TreeInput("attachment", "usual", <<>>, Cardinality(S),
               AttachmentTemplate(FieldsOf(S, ascending)), Obj(FieldsOf(S, ascending)))
     : S \in FieldSets, ascending \in BOOLEAN}
    \cup {TreeInput("attachment", "empty", <<>>, 1,
                    AttachmentTemplate(<<Field(attributeOrder[i], v)>>), Obj(<<Field(attributeOrder[i], v)>>))
          : i \in 1..Len(attributeOrder), v \in EmptyValues}

\* ---- trees: an operator function over an argument of every shape: an array
\* of 0..MaxArgs operands, a string, a reference
OperatorArguments ==
    {Arr([i \in 1..n |-> ConditionK]) : n \in 0..MaxArgs} \cup {Str(Chars("a")), Ref(Chars("A"))}

OperatorShapeInputs ==
    {TreeInput("shape", place, name, IF args.k = "arr" THEN Len(args.items) ELSE 0,
               IF place = "condition" THEN ConditionTemplate(Fn(name, args)) ELSE ValueTemplate(Fn(name, args)),
               Fn(name, args))
     : place \in {"condition", "value"}, name \in OperatorFunctions, args \in OperatorArguments}

\* ---- sources: a declared parameter P or condition K referred to in the body
\* of a Metadata or Globals section, as a property value and as an argument
SectionKeywords == {Chars("Metadata"), Chars("Globals")}

SectionReference(text, tree) == [text |-> text, tree |-> tree]

SectionReferences ==
    {SectionReference(Chars("P"), Ref(Chars("P"))),
     SectionReference(Chars("K"), Obj(<<Field(Chars("Condition"), Str(Chars("K")))>>))}

SectionInputs ==
    {SourceInput("section", form, keyword, 0,
        Chars("P = Parameter { Type: 'String' }") \o <<"\n">> \o Chars("K = Condition P == 'a'") \o <<"\n">>
            \o keyword \o Chars(" { a: ")
            \o (IF form = "argument" THEN Chars("Base64(") \o r.text \o <<")">> ELSE r.text)
            \o Chars(" }"),
        [parameters |-> {Chars("P")}, conditions |-> {Chars("K")}, resources |-> {}, mappings |-> {}],
        IF form = "argument" THEN Fn(Chars("Base64"), r.tree) ELSE r.tree)
     : form \in {"value", "argument"}, keyword \in SectionKeywords, r \in SectionReferences}

\* ---- sources: an attribute access at a position, in dot and in bracket
\* form, on the declared resource S and on the name X that nothing declares
AccessBases == {Chars("S"), Chars("X")}

AccessInputs ==
    {SourceInput("access", position, base, IF form = "dot" THEN 1 ELSE 2,
        Chars("S = Resource AWS::SNS::Topic") \o <<"\n">>
            \o PositionSource(position,
                  base \o (IF form = "dot" THEN Chars(".Arn") ELSE Chars("[") \o <<"\"", "a", "\"">>
                                                                   \o Chars(", ") \o <<"\"", "b", "\"">> \o Chars("]"))),
        [parameters |-> {}, conditions |-> {}, resources |-> {Chars("S")}, mappings |-> {}],
        GetAtt(<<base>> \o (IF form = "dot" THEN <<Chars("Arn")>> ELSE <<Chars("a"), Chars("b")>>)))
     : position \in {"output", "property", "argument", "condition"}, form \in {"dot", "bracket"},
       base \in AccessBases}

(***************************************************************************)
(* The state machine: one input, and the operations applied to it.         *)
(***************************************************************************)
TreeInputs ==
    ValueInputs \cup GetAttInputs \cup NotEqualTreeInputs \cup PseudoTreeInputs
        \cup ConditionInputs \cup ResourceInputs \cup EscapeInputs
        \cup SubInputs \cup OrderInputs \cup ConditionReferenceInputs
        \cup AttachmentInputs \cup OperatorShapeInputs

SourceInputs ==
    PrecedenceInputs \cup NotEqualInputs \cup IdentifierInputs \cup PseudoInputs \cup CallInputs
        \cup PolicyInputs \cup ForbiddenCallInputs \cup MemberInputs \cup ChainInputs
        \cup UnwrapInputs \cup IfNameInputs \cup PermutedInputs
        \cup SectionInputs \cup AccessInputs

NodeInputs == FunctionNodeInputs \cup IdentifierNodeInputs

Inputs == TreeInputs \cup SourceInputs \cup NodeInputs

\* No text yet, no result yet
NoText == [ok |-> FALSE, s |-> <<>>]
NoResult == [ok |-> FALSE, v |-> Undefined, err |-> NoErr]

\* new Lexer(source): no call made yet.  st is the lexer's pos, line, column
\* and current; op is the last call, before the lexer as that call found it,
\* result what the call returned or threw, and peeked the result of the
\* peek() made just before a nextToken().
NoCall == LexOk(makeToken("", <<>>, 0, 0), LexerInit(<<>>))

NewLexer(source) ==
    [st |-> LexerInit(source), op |-> "new", before |-> LexerInit(source), result |-> NoCall, peeked |-> NoCall]

Init ==
    /\ inp \in Inputs
    /\ tmpl = inp.tree
    /\ script = IF inp.mode = "source" THEN SOk(inp.source) ELSE NoText
    /\ out = NoResult
    /\ pretty = <<>>
    /\ pc = {}
    /\ lexer = NewLexer(inp.source)

\* script = new Decompiler().decompile(tmpl)
Decompile ==
    /\ inp.mode = "tree"
    /\ "decompile" \notin pc
    /\ script' = Call("decompile", <<tmpl>>)
    /\ pc' = pc \cup {"decompile"}
    /\ UNCHANGED <<inp, tmpl, out, pretty, lexer>>

\* pretty = new PrettyPrinter().format(script)
Format ==
    /\ script.ok
    /\ "format" \notin pc
    /\ pretty' = Call("format", <<script.s>>)
    /\ pc' = pc \cup {"format"}
    /\ UNCHANGED <<inp, tmpl, script, out, lexer>>

\* out = new Compiler().compile(script), ok = FALSE when it throws
Compile ==
    /\ script.ok
    /\ "compile" \notin pc
    /\ out' = Call("compile", <<script.s>>)
    /\ pc' = pc \cup {"compile"}
    /\ UNCHANGED <<inp, tmpl, script, pretty, lexer>>

\* out = node.toCloudFormationWithContext(context)
RenderNode ==
    /\ inp.mode = "node"
    /\ "render" \notin pc
    /\ out' = Call("toCloudFormationWithContext", <<inp.node, inp.context>>)
    /\ pc' = pc \cup {"render"}
    /\ UNCHANGED <<inp, tmpl, script, pretty, lexer>>

Next == Decompile \/ Format \/ Compile \/ RenderNode

Spec == Init /\ [][Next]_vars

\* A Lexer over one source text, driven by any sequence of nextToken() and
\* peek() calls; a call that throws leaves the lexer where the throw found it,
\* and the caller may go on calling.
LexInit ==
    /\ inp \in LexerInputs
    /\ tmpl = inp.tree
    /\ script = SOk(inp.source)
    /\ out = NoResult
    /\ pretty = <<>>
    /\ pc = {}
    /\ lexer = NewLexer(inp.source)

\* lexer.nextToken()
NextToken ==
    LET r == Call("nextToken", <<script.s, lexer.st>>)
    IN  /\ lexer' = [st |-> r.st, op |-> "nextToken", before |-> lexer.st, result |-> r,
                     peeked |-> IF lexer.op = "peek" THEN lexer.result ELSE NoCall]
        /\ UNCHANGED <<inp, tmpl, script, out, pretty, pc>>

\* lexer.peek()
Peek ==
    LET r == Call("peek", <<script.s, lexer.st>>)
    IN  /\ lexer' = [st |-> r.st, op |-> "peek", before |-> lexer.st, result |-> r, peeked |-> NoCall]
        /\ UNCHANGED <<inp, tmpl, script, out, pretty, pc>>

LexNext == NextToken \/ Peek

LexSpec == LexInit /\ [][LexNext]_vars

(***************************************************************************)
(* The properties.                                                         *)
(***************************************************************************)
Ran(operation) == operation \in pc

FromTree(family) == inp.mode = "tree" /\ inp.family = family
FromSource(family) == inp.mode = "source" /\ inp.family = family
FromNode(family) == inp.mode = "node" /\ inp.family = family

\* C1: for every tree T built from the supported constructs with every
\* referenced name declared, compile(decompile(T)) is structurally equal to T
\* once the empty sections are removed from both.
RoundTripLaw ==
    (inp.mode = "tree" /\ Ran("compile")) =>
        (out.ok /\ TreeEq(normalizeTemplate(out.v), normalizeTemplate(tmpl)))

\* C2: for all operands a, b, c, d the expression a && b || c && d parses
\* and compiles to Fn::Or[Fn::And[a', b'], Fn::And[c', d']]: no && group is
\* split by the || next to it.
AndBindsTighterThanOr ==
    (FromSource("precedence") /\ Ran("compile")) =>
        (out.ok /\ ConditionValue(out.v) = inp.expected)

\* An operand that is itself a parenthesised || keeps its own Fn::Or
AndBindsTighterThanOrWitness ==
    /\ FromSource("precedence") /\ Ran("compile") /\ out.ok
    /\ ConditionValue(out.v) =
          Fn(Chars("Or"),
             Arr(<<Fn(Chars("And"), Arr(<<Ref(Chars("A")),
                                          Fn(Chars("Or"), Arr(<<Ref(Chars("A")), Ref(Chars("B"))>>))>>)),
                   Fn(Chars("And"), Arr(<<Fn(Chars("Not"), Arr(<<Ref(Chars("C"))>>)), Ref(Chars("A"))>>))>>))

\* What the identifier rule gives for a declared name
ResolvedIdentifier(name, context) ==
    IF name \in context.conditions /\ name \notin context.parameters
    THEN Obj(<<Field(Chars("Condition"), Str(name))>>)
    ELSE Ref(name)

\* C3: a bare, declared, non-AWS identifier x renders as {Condition: x} if
\* and only if x is declared as a Condition and not as a Parameter, and as
\* {Ref: x} in every other case, a Parameter and a Condition of the same name
\* included.  Checked on the identifier node under every combination of
\* declarations, and through compile at every position that takes the rendered value.
IdentifierResolution ==
    /\ (FromNode("identifier") /\ inp.name = Chars("x") /\ inp.context # EmptyContext /\ Ran("render")) =>
          (out.ok /\ out.v = ResolvedIdentifier(inp.name, inp.context))
    /\ (FromSource("identifier") /\ inp.tag \in ValuePositions /\ inp.context # EmptyContext
            /\ Ran("compile")) =>
          (out.ok /\ TreeEq(Entry(out.v, inp.tag),
                            PositionTree(inp.tag, ResolvedIdentifier(inp.name, inp.context))))

\* A Parameter and a Condition share the name, and the reference compiled to Ref
IdentifierResolutionWitness ==
    /\ FromSource("identifier") /\ inp.tag = "output" /\ Ran("compile") /\ out.ok
    /\ inp.context.parameters = {Chars("x")} /\ inp.context.conditions = {Chars("x")}
    /\ OutputValue(out.v) = Ref(Chars("x"))

\* The function names documented as always taking an array
ArityFixedNames ==
    {Chars("Not"), Chars("And"), Chars("Or"), Chars("Equals"), Chars("Join"), Chars("Split"),
     Chars("Select"), Chars("FindInMap"), Chars("Cidr")}

\* What the arity rule gives for name applied to the first n arguments
AppliedFunction(name, n) ==
    Fn(name, IF name \in ArityFixedNames \/ n >= 2 THEN Arr([i \in 1..n |-> ArgumentTree(i)])
             ELSE ArgumentTree(1))

Statements(text) == LET ss == Call("Split", <<text, <<"\n", "\n">> >>) IN {ss[i] : i \in 1..Len(ss)}

AttributePathText(parts) ==
    IF Len(parts) = 2 THEN parts[1] \o <<".">> \o parts[2]
    ELSE parts[1] \o <<"[">>
            \o JoinWith([i \in 1..(Len(parts) - 1) |-> <<"\"">> \o parts[i + 1] \o <<"\"">>], Chars(", "))
            \o <<"]">>

\* C6: {Fn::GetAtt: [R, p1, ..., pn]} with n >= 2 decompiles to
\* R["p1", ..., "pn"] and recompiles to the same (n+1)-element array;
\* [R, p] decompiles to R.p and recompiles to exactly [R, p], also when p has dots.
AttributePathRoundTrip ==
    /\ (FromTree("getatt") /\ Ran("decompile")) =>
          (script.ok /\ Includes(script.s,
                Chars("Value: ") \o AttributePathText(<<inp.name>> \o
                    [i \in 1..inp.n |-> Get(inp.expected.props, Chars("Fn::GetAtt")).items[i + 1].s])))
    /\ (FromTree("getatt") /\ Ran("compile")) =>
          (out.ok /\ OutputValue(out.v) = inp.expected
              /\ PropertyValueOf(out.v, inp.name) = inp.expected)

FormatIdempotent ==
    (inp.mode = "tree" /\ Ran("decompile") /\ Ran("format")) => (script.ok /\ pretty = script.s)

\* The decompile output has an object laid out over several lines, and format left it alone
FormatIdempotentWitness ==
    /\ inp.mode = "tree" /\ Ran("decompile") /\ Ran("format") /\ pretty = script.s
    /\ Includes(script.s, <<"{", "\n", " ", " ", "P", ":", " ", "{", "\n", " ", " ", " ", " ", "a", ":">>)

\* C9: a != b compiles to Fn::Not[Fn::Equals[a', b']], the tree of !(a == b);
\* Fn::Not[Fn::Equals[x, y]] decompiles to x' != y'; and decompile followed
\* by compile returns such a value.
NotEqualSugar ==
    /\ (FromSource("notequal") /\ Ran("compile")) => (out.ok /\ ConditionValue(out.v) = inp.expected)
    /\ (FromTree("notequal") /\ Ran("decompile")) =>
          (script.ok /\ Includes(script.s, Chars("Value: ") \o inp.name))
    /\ (FromTree("notequal") /\ Ran("compile")) =>
          (out.ok /\ OutputValue(out.v) = inp.expected /\ PropertyValue(out.v) = inp.expected)

\* Whether the key occurs in some object of the tree
RECURSIVE Mentions(_, _)
Mentions(v, key) ==
    CASE v.k = "arr" -> \E i \in 1..Len(v.items) : Mentions(v.items[i], key)
      [] v.k = "obj" -> HasKey(v.props, key) \/ \E i \in 1..Len(v.props) : Mentions(v.props[i][2], key)
      [] OTHER -> FALSE

\* C10: for every identifier N the source AWS.N compiles to {Ref: "AWS::N"}
\* with no declaration of it and never to an Fn::GetAtt; {Ref: "AWS::N"}
\* decompiles to AWS.N, and compile(decompile) maps it to itself.  The Ref is
\* checked at the positions that take the rendered value.
PseudoGlobals ==
    /\ (FromSource("pseudo") /\ Ran("compile")) =>
          (out.ok /\ ~Mentions(out.v, Chars("Fn::GetAtt")))
    /\ (FromSource("pseudo") /\ inp.tag \in ValuePositions /\ Ran("compile")) =>
          TreeEq(Entry(out.v, inp.tag), PositionTree(inp.tag, Ref(Chars("AWS::") \o inp.name)))
    /\ (FromTree("pseudo") /\ Ran("decompile")) =>
          (script.ok /\ Includes(script.s, Chars("Value: AWS.") \o inp.name))
    /\ (FromTree("pseudo") /\ Ran("compile")) =>
          (out.ok /\ OutputValue(out.v) = inp.expected /\ PropertyValue(out.v) = inp.expected)

\* AWS.Region as a resource property compiled to the Ref, nothing being declared
PseudoGlobalsWitness ==
    /\ FromSource("pseudo") /\ inp.tag = "property" /\ inp.name = Chars("Region")
    /\ Ran("compile") /\ out.ok
    /\ PropertyValue(out.v) = Ref(Chars("AWS::Region"))

\* C11: a resource with DeletionPolicy(v), v a bare word, compiles with
\* DeletionPolicy equal to the string v exactly when v is Delete, Retain,
\* RetainExceptOnCreate or Snapshot, and with UpdateReplacePolicy(v) exactly
\* when v is Delete, Retain or Snapshot; any other v makes compile throw
\* "Invalid <Policy> value '<v>'. Must be one of: ...".
PolicyValues ==
    (FromSource("policy") /\ Ran("compile")) =>
        IF inp.name \in AllowedPolicyValues(inp.tag)
        THEN out.ok /\ Get(ResourceValue(out.v).props, Chars(inp.tag)) = Str(inp.name)
        ELSE ~out.ok /\ out.err.kind = "Invalid policy value" /\ out.err.detail = inp.name

\* The syntax that the error for a forbidden name has to point to
PreferredSyntax(name) ==
    CASE name = Chars("Equals") -> Chars("==")
      [] name = Chars("Or") -> Chars("||")
      [] name = Chars("And") -> Chars("&&")
      [] name = Chars("Not") -> Chars("!")
      [] name = Chars("Ref") -> Chars("variable reference")
      [] name = Chars("GetAtt") -> Chars("dot notation")

\* The node parsed for the Value of the output O
ParsedOutputValue(text) ==
    LET r == Call("parse", <<text>>)
    IN  IF r.ok /\ r.node.statements[1].value.t = "Output"
        THEN Get(r.node.statements[1].value.properties.properties, Chars("Value"))
        ELSE Nil

\* C12: N(...) with N one of Equals, Or, And, Not, Ref, GetAtt never parses:
\* the error names N and the syntax to use instead; every other identifier
\* followed by ( parses as a function call with its arguments in order.
ForbiddenCallSyntax ==
    /\ (FromSource("forbidden") /\ inp.name \in ForbiddenNames /\ Ran("compile")) =>
          (/\ ~Call("parse", <<script.s>>).ok
           /\ ~out.ok /\ out.err.kind = "function syntax is not supported"
           /\ out.err.detail[1] = inp.name
           /\ Includes(out.err.detail[2], PreferredSyntax(inp.name)))
    /\ (FromSource("forbidden") /\ inp.name \notin ForbiddenNames /\ Ran("compile")) =>
          ParsedOutputValue(script.s) = inp.expected
    /\ (FromSource("call") /\ Ran("compile")) =>
          ParsedOutputValue(script.s) =
              FunctionCallNode(inp.name, [i \in 1..inp.n |-> LiteralNode(ArgumentTree(i))])

\* The text lexes as one STRING token with the value s, and nothing follows it
LexesAsString(text, s) ==
    LET first == Call("nextToken", <<text, LexerInit(text)>>)
        second == Call("nextToken", <<text, first.st>>)
    IN /\ first.ok /\ first.tok.type = "STRING" /\ first.tok.value = s
       /\ second.ok /\ second.tok.type = "EOF"

\* The literals the decompiler writes for the string of the input
ValueLiteral == Call("valueToSource", <<Str(inp.name)>>).s
KeyLiteral == Call("quoteKeyIfNeeded", <<inp.name>>)

\* C13: for every string s, the single-quoted literal the decompiler writes
\* for s as a value, and the one it writes for s as an object key that needs
\* quoting, stand in the decompile output and are each read by the lexer as
\* one STRING token whose value is s; the template compiles back to s in both
\* places.
EscapeInvertsLexing ==
    (FromTree("string") /\ Ran("decompile")) =>
        /\ script.ok
        /\ ValueLiteral = Quote(Call("escapeString", <<inp.name>>))
        /\ Includes(script.s, Chars("P: ") \o ValueLiteral)
        /\ LexesAsString(ValueLiteral, inp.name)
        /\ Call("needsQuoting", <<inp.name>>) =>
              /\ KeyLiteral = ValueLiteral
              /\ Includes(script.s, Chars("{ ") \o KeyLiteral \o Chars(": 1"))
              /\ LexesAsString(KeyLiteral, inp.name)
        /\ Ran("compile") =>
              /\ out.ok
              /\ PropertyValue(out.v) = Str(inp.name)
              /\ OutputValue(out.v) = Obj(<<Field(inp.name, One)>>)

\* A string of a backslash and a quote was written as a value and as a key, and came back
EscapeInvertsLexingWitness ==
    /\ FromTree("string") /\ inp.name = <<"\\", "'">>
    /\ Ran("compile") /\ out.ok
    /\ KeyLiteral = <<"'", "\\", "\\", "\\", "'", "'">>
    /\ PropertyValue(out.v) = Str(inp.name)
    /\ OutputValue(out.v) = Obj(<<Field(inp.name, One)>>)

\* C14: peek() leaves pos, line, column and current as it found them, also
\* when it ends by throwing a lex error, and the nextToken() that follows a
\* peek() returns the token that peek() returned.
NonDestructivePeek ==
    /\ lexer.op = "peek" => lexer.st = lexer.before
    /\ (lexer.op = "nextToken" /\ lexer.peeked # NoCall /\ lexer.peeked.ok) =>
          (lexer.result.ok /\ lexer.result.tok = lexer.peeked.tok)

\* The value of Fn::Sub in the compiled output (undefined where there is none)
CompiledSub == Prop(OutputValue(out.v), Chars("Fn::Sub"))

\* Sub written with n arguments, or built as a call node of n arguments
SubCallOf(n) ==
    \/ FromSource("call") /\ inp.name = Chars("Sub") /\ inp.n = n /\ Ran("compile")
    \/ FromNode("function") /\ inp.name = Chars("Sub") /\ inp.n = n /\ Ran("render")

SubCallResult == IF inp.mode = "node" THEN Prop(out.v, Chars("Fn::Sub")) ELSE CompiledSub

\* The call that decompile writes for the Fn::Sub of the input: the template
\* alone, or the template and the start of the variable map
SubCallText ==
    CASE inp.n <= 1 -> Chars("Sub(") \o Quote(Call("escapeString", <<inp.name>>)) \o <<")">>
      [] OTHER -> Chars("Sub(") \o Quote(Call("escapeString", <<inp.name>>)) \o Chars(", {")

\* C15: Sub(t) compiles to the scalar form and Sub(t, vars, ...) to the array
\* form; a scalar Fn::Sub decompiles to a one-argument call and an array one
\* to a call that compiles back to the same array, so that decompile followed
\* by compile returns every Fn::Sub value, scalar or array.
SubRoundTrip ==
    /\ \A n \in 1..MaxArgs : SubCallOf(n) =>
          (out.ok /\ SubCallResult = IF n = 1 THEN ArgumentTree(1) ELSE Arr([i \in 1..n |-> ArgumentTree(i)]))
    /\ (FromTree("sub") /\ Ran("decompile")) => (script.ok /\ Includes(script.s, SubCallText))
    /\ (FromTree("sub") /\ Ran("compile")) => (out.ok /\ CompiledSub = inp.expected)

\* The statements of the decompile output, in order
StatementList == Call("Split", <<script.s, <<"\n", "\n">> >>)

\* C16: the decompile output has its statements in the section order
\* AWSTemplateFormatVersion, Description, Transform, Metadata, Globals,
\* Parameters, Mappings, Conditions, Resources, Outputs, Rules, whatever the
\* order the tree stores the sections in, and within a declaration section one
\* statement for each entry, in the stored order of the entries.
DecompileOrder ==
    (FromTree("order") /\ Ran("decompile")) =>
        /\ script.ok
        /\ Len(StatementList) = Len(inp.expected.items)
        /\ \A i \in 1..Len(inp.expected.items) : StartsWith(StatementList[i], inp.expected.items[i].s)

\* A tree that stores Rules first and the entry b before the entry a
\* decompiled to the version line first and Pab before Paa
DecompileOrderWitness ==
    /\ FromTree("order") /\ inp.tag = "descending" /\ inp.n = 2 /\ Ran("decompile") /\ script.ok
    /\ Len(StatementList) = 17
    /\ StartsWith(StatementList[1], Chars("AWSTemplateFormatVersion '2010-09-09'"))
    /\ StartsWith(StatementList[6], Chars("Pab = Parameter "))
    /\ StartsWith(StatementList[7], Chars("Paa = Parameter "))
    /\ StartsWith(StatementList[17], Chars("Rua = Rule "))

\* The value that the member access of the input compiled to: the output value,
\* or the operand of the Fn::Not of the condition
MemberValue ==
    IF inp.tag = "output" THEN OutputValue(out.v)
    ELSE LET not == Prop(Path(out.v, <<Chars("Conditions"), Chars("K")>>), Chars("Fn::Not"))
         IN  IF not.k = "arr" /\ Len(not.items) = 1 THEN not.items[1] ELSE Undefined

\* {Fn::GetAtt: [base, "p1.p2. ... .pn"]} for the chain of the input
JoinedGetAtt ==
    Fn(Chars("GetAtt"),
       Arr(<<Str(inp.name), Str(JoinWith([i \in 1..inp.n |-> inp.expected.items[i].s], <<".">>))>>))

\* C17: for an identifier R and a chain of n >= 1 property names, R.p1. ... .pn
\* compiles to the two-element {Fn::GetAtt: [R, "p1. ... .pn"]}, the names
\* joined by dots in their order, and never to nested Fn::GetAtt values.
ChainedMemberAccess ==
    (FromSource("member") /\ Ran("compile")) => (out.ok /\ MemberValue = JoinedGetAtt)

\* C17, amended: the same for every identifier R other than AWS.  AWS.p is
\* the identifier AWS::p and compiles to {Ref: "AWS::p"}, and a longer chain
\* on AWS gives no Fn::GetAtt either.
ChainedMemberAccessExceptAWS ==
    (FromSource("member") /\ Ran("compile")) =>
        CASE inp.name # Chars("AWS") -> out.ok /\ MemberValue = JoinedGetAtt
          [] inp.n = 1 -> out.ok /\ MemberValue = Ref(Chars("AWS::") \o inp.expected.items[1].s)
          [] OTHER -> ~(out.ok /\ MemberValue = JoinedGetAtt)

\* R.Arn.AWS.Arn under ! compiled to one Fn::GetAtt of R and "Arn.AWS.Arn"
ChainedMemberAccessWitness ==
    /\ FromSource("member") /\ inp.tag = "condition" /\ inp.name = Chars("R") /\ Ran("compile") /\ out.ok
    /\ MemberValue = Fn(Chars("GetAtt"), Arr(<<Str(Chars("R")), Str(Chars("Arn.AWS.Arn"))>>))

\* The expression of the condition X in the parsed source: the last statement
ParsedCondition ==
    LET parsed == Call("parse", <<inp.source>>)
        last == parsed.node.statements[Len(parsed.node.statements)]
    IN  IF parsed.ok /\ last.t = "Assignment" /\ last.value.t = "Condition" THEN last.value.expression ELSE Nil

\* C18: a1 && ... && an without parentheses parses to one And call of the n
\* operands in their order, and a1 || ... || an to one Or call; an operand
\* that is a chain in parentheses stays a call of its own among the
\* arguments.  The condition compiles to the Fn::And or Fn::Or of the same shape.
NaryFlattening ==
    (FromSource("chain") /\ Ran("compile")) =>
        /\ ParsedCondition = inp.node
        /\ Len(ParsedCondition.args) = inp.n
        /\ out.ok
        /\ ConditionValue(out.v) = inp.expected

\* A && (B && C) && A parsed to an And of three arguments, the second an And of two
NaryFlatteningWitness ==
    /\ FromSource("chain") /\ inp.name = Chars("And") /\ inp.n = 3 /\ Ran("compile") /\ out.ok
    /\ ParsedCondition.name = Chars("And")
    /\ Len(ParsedCondition.args) = 3
    /\ ParsedCondition.args[1] = IdentifierNode(Chars("A"))
    /\ ParsedCondition.args[2] =
          FunctionCallNode(Chars("And"), <<IdentifierNode(Chars("B")), IdentifierNode(Chars("C"))>>)
    /\ ParsedCondition.args[3] = IdentifierNode(Chars("A"))

\* C19: the DependsOn and the Condition of a compiled resource are the bare
\* names, as a string or for DependsOn as a list of strings, and never a
\* {Ref: ...} or {Condition: ...} object, whether the source wrote an
\* identifier, a quoted string or an array of identifiers.
AttributeUnwrap ==
    (FromSource("unwrap") /\ Ran("compile")) =>
        (out.ok /\ Prop(ResourceValue(out.v), inp.name) = inp.expected)

\* C20: a value {Condition: name} in a value position decompiles to the bare
\* identifier name, and not to an object literal with the key Condition.
ConditionReferenceToSource ==
    (FromTree("conditionref") /\ Ran("decompile")) =>
        /\ script.ok
        /\ Includes(script.s, inp.name)
        /\ ~Includes(script.s, Chars("{ Condition: "))

\* C21: nextToken() never returns a token for a lone & or a lone |: when the
\* next character after whitespace and comments is & not followed by & (or |
\* not followed by |), the call fails with the line and column of that
\* character, and no returned token has the type AMPERSAND or PIPE.
LoneOperatorIsError ==
    lexer.op = "nextToken" =>
        LET st == skipWhitespaceAndComments(script.s, lexer.before)
        IN  /\ (st.current \in {"&", "|"} /\ peek1(script.s, st) # st.current) =>
                  /\ ~lexer.result.ok
                  /\ lexer.result.line = st.line
                  /\ lexer.result.column = st.column
            /\ lexer.result.ok => lexer.result.tok.type \notin {"AMPERSAND", "PIPE"}

\* C22: a call If(c, ...) of two or more arguments whose first argument is
\* the plain identifier c compiles to an Fn::If array whose first element is
\* the bare string c, never {Ref: c} or {Condition: c}, whether c is declared
\* as a condition, a parameter, both or neither; the arguments after the
\* first are rendered as they are anywhere else, and the compile fails only
\* when one of them does.
IfCallValue == IF inp.tag = "output" THEN OutputValue(out.v) ELSE PropertyValue(out.v)

IfRestDeclared == \A i \in 1..inp.n : inp.expected.items[i] # Undefined

IfConditionName ==
    (FromSource("ifname") /\ Ran("compile")) =>
        /\ out.ok <=> IfRestDeclared
        /\ out.ok => TreeEq(IfCallValue, Fn(Chars("If"), Arr(<<Str(inp.name)>> \o inp.expected.items)))

IfConditionNameWitness ==
    /\ FromSource("ifname") /\ Ran("compile") /\ out.ok
    /\ inp.n = 2
    /\ inp.context.conditions = {Chars("x")}
    /\ inp.context.parameters = {}
    /\ inp.expected.items[2] = Obj(<<Field(Chars("Condition"), Str(Chars("x")))>>)
    /\ IfCallValue.props[1][2].items[1] = Str(Chars("x"))

ModifierCalls(key) ==
    {i \in 1..Len(script.s) : StartsWith(Drop(script.s, i - 1), <<" ">> \o key \o <<"(">>)}

\* C24: for a resource, every field among DependsOn, Condition,
\* DeletionPolicy, UpdateReplacePolicy, Metadata, CreationPolicy,
\* UpdatePolicy and Version that is present in the tree, whatever its value,
\* is written as exactly one chained modifier call, an absent field writes
\* none, and the calls come in that one order whatever the order of the keys
\* in the tree.
AttachmentModifiers ==
    (FromTree("attachment") /\ Ran("decompile")) =>
        /\ script.ok
        /\ \A i \in 1..Len(attributeOrder) :
              Cardinality(ModifierCalls(attributeOrder[i])) =
                  IF HasKey(inp.expected.props, attributeOrder[i]) THEN 1 ELSE 0
        /\ \A i, j \in 1..Len(attributeOrder) :
              \A p \in ModifierCalls(attributeOrder[i]) : \A q \in ModifierCalls(attributeOrder[j]) :
                  i < j => p < q

\* C25: operator nesting survives decompile: for every condition value built
\* from Fn::And, Fn::Or, Fn::Not and Fn::Equals nested over references and
\* string literals (an Or inside an And, an And inside an And, an operator
\* expression as an Equals operand, a Not around a Not-Equals), the text that
\* decompile writes compiles back to the same nesting.
OperatorNestingSurvives ==
    (FromTree("condition") /\ Ran("decompile") /\ Ran("compile")) =>
        (script.ok /\ out.ok /\ TreeEq(ConditionValue(out.v), inp.expected))

\* C26: decompile never writes call syntax that the parser rejects: for
\* every Fn:: value, whatever the shape of its argument (Equals with other
\* than 2 arguments, Not with other than 1 argument or an argument that is
\* not an array, And or Or with an argument that is not an array), the text
\* has no call named Equals, And, Or, Not, Ref or GetAtt, and compiling it
\* does not fail on unsupported function syntax.
NoForbiddenCallEmitted ==
    /\ (FromTree("shape") /\ Ran("decompile") /\ script.ok) =>
          \A name \in ForbiddenNames : ~Includes(script.s, name \o <<"(">>)
    /\ (FromTree("shape") /\ Ran("compile")) =>
          (out.ok \/ out.err.kind # "function syntax is not supported")

\* The types and values of the tokens that nextToken() returns on a text, up
\* to EOF or to the first lex error (which ends the sequence with its message)
RECURSIVE LexAll(_, _, _)
LexAll(source, st, tokens) ==
    LET r == nextToken(source, st)
    IN  IF ~r.ok THEN Append(tokens, <<"error", Chars("lex error")>>)
        ELSE IF r.tok.type = "EOF" THEN tokens
        ELSE LexAll(source, r.st, Append(tokens, <<r.tok.type, r.tok.value>>))

TokensOf(source) == LexAll(source, LexerInit(source), <<>>)

\* C27: the pretty-printer only re-flows white space: for every text the
\* decompiler writes, format keeps every string literal byte for byte (also
\* strings with braces, with quotes of the other kind, or ending in an
\* escaped backslash) and keeps the characters outside string literals that
\* are not white space, so that the formatted text lexes to the same token
\* sequence as the unformatted text and no property is dropped.
FormatKeepsTokens ==
    (inp.mode = "tree" /\ inp.family \in {"string", "value", "attachment"}
        /\ Ran("decompile") /\ script.ok) =>
            /\ TokensOf(script.s) = TokensOf(decompileLines(tmpl).s)
            /\ Ran("format") => TokensOf(pretty) = TokensOf(script.s)

\* C28: the lexer makes progress and ends: every nextToken() that returns a
\* token other than EOF leaves the lexer at a greater position than it found
\* it; EOF is returned at the end of the text only, and a nextToken() called
\* at the end of the text returns EOF and leaves the position as it was, so
\* that every call after an EOF returns EOF again; and parse() of the text
\* ends, returning a template node or raising an error.
LexerProgress ==
    /\ (lexer.op = "nextToken" /\ lexer.result.ok /\ lexer.result.tok.type # "EOF") =>
          lexer.st.pos > lexer.before.pos
    /\ (lexer.op = "nextToken" /\ lexer.result.ok /\ lexer.result.tok.type = "EOF") =>
          lexer.st.pos >= Len(script.s)
    /\ (lexer.op = "nextToken" /\ lexer.before.pos >= Len(script.s)) =>
          /\ lexer.result.ok /\ lexer.result.tok.type = "EOF"
          /\ lexer.st.pos = lexer.before.pos
    /\ (lexer.op = "nextToken" /\ lexer.result.ok /\ lexer.result.tok.type = "EOF") =>
          LET a == Call("parse", <<script.s>>)
          IN  (a.ok /\ a.node.t = "Template") \/ (~a.ok /\ a.err.kind # "")

\* EOF returned a second time, on a text that was cut short inside a bracket
LexerProgressWitness ==
    /\ inp.family = "lexer" /\ inp.tag = "truncated"
    /\ lexer.op = "nextToken" /\ lexer.result.ok /\ lexer.result.tok.type = "EOF"
    /\ lexer.before.pos >= Len(script.s)
    /\ Len(script.s) > 20
    /\ ~Call("parse", <<script.s>>).ok



\* C29: identifiers in the bodies of the Metadata and Globals sections are
\* resolved with the symbol table of the declarations: a reference to a
\* declared parameter renders as {Ref: name} and a reference to a declared
\* condition that is not a parameter as {Condition: name}, as a property
\* value and as an argument of a function call, and a declared name never
\* raises the undeclared-identifier error there.
SectionBodyResolution ==
    (FromSource("section") /\ Ran("compile")) =>
        /\ out.ok
        /\ TreeEq(Path(out.v, <<inp.name, Chars("a")>>), inp.expected)

====
